---- MODULE Spec2Model ----
(***************************************************************************)
(* A model of the key registry (KeyManager), the external key loader, the  *)
(* encrypted file system provider (readFile / writeFile) and the           *)
(* save handler of the vscode-gpg extension.                               *)
(*                                                                         *)
(* Every async function is cut at the awaits that suspend it on I/O, on    *)
(* the secret store, on openpgp or on the user: one action per resumption, *)
(* which runs the code up to the next such await.  An await of an async    *)
(* function that returns without any of these (getDefaultRecipient,        *)
(* listPublicKeys, listPrivateKeys) lets no other handler run.             *)
(***************************************************************************)
EXTENDS Integers, Sequences, FiniteSets, TLC

VARIABLES
  cachedKeys,        \* KeyManager.cachedKeys   (insertion-ordered Map)
  externalKeys,      \* KeyManager.externalKeys (insertion-ordered Map)
  storedKeys,        \* globalState 'gpg.storedKeys'
  defaultRecipient,  \* globalState 'gpg.defaultRecipient' ("" = undefined)
  secrets,           \* context.secrets, per keyId ("" = no entry)
  config,            \* workspace configuration 'gpg'
  loadKeysPromise,   \* KeyManager.loadKeysPromise (0 = null, else a load id)
  loads,             \* the loadKeysFromPaths calls, by id
  disk,              \* the bytes of the one file the provider works on
  rd,                \* the readFile call
  wr,                \* the writeFile call
  sv,                \* the onDidSaveTextDocument handler run
  km,                \* the importKey / removeKey calls, by slot
  seen,              \* what the last registry reader observed
  fsCall             \* the delete / rename / stat call of the provider

vars == <<cachedKeys, externalKeys, storedKeys, defaultRecipient, secrets,
          config, loadKeysPromise, loads, disk, rd, wr, sv, km, seen, fsCall>>

kmVars == <<cachedKeys, externalKeys, storedKeys, loadKeysPromise, loads>>

(***************************************************************************)
(* Bounds of the model.                                                    *)
(***************************************************************************)
MaxCalls == 1      \* calls of one operation after the first one
MaxLoads == 2      \* loadKeysFromPaths calls after the constructor's
MaxKeyCalls == 1   \* importKey / removeKey calls beside a read
MaxLines == 4      \* lines of a key file given to extractKeyBlocks

KeyIds == {"A", "B", "C"}
Texts == {"p", "q"}
Passphrases == {"x", "y"}
GenUserIds == {"U"}      \* what the user enters as the user ID of a new key

(***************************************************************************)
(* Armored key material.  id is the hex key id openpgp reads from it, priv *)
(* whether it is a private key block, lock the passphrase that protects a   *)
(* private key ("" = not protected), uid its first user id.                *)
(***************************************************************************)
Key(id, priv, lock, uid) == [id |-> id, priv |-> priv, lock |-> lock, uid |-> uid]

NoKey == Key("", FALSE, "", "")   \* JavaScript undefined, for a key

Pub(id) == Key(id, FALSE, "", id)
Sec(id) == Key(id, TRUE, "", id)
LockedSec(id, pw) == Key(id, TRUE, pw, id)

(***************************************************************************)
(* File contents.  kind "none": no file; "text": the UTF-8 encoding of     *)
(* text; "raw": bytes that are no valid UTF-8; "pgp": an OpenPGP message   *)
(* for key id `to` that holds `text`.  head is what the first bytes look   *)
(* like: "armor" (contains -----BEGIN PGP), "pkt" (first byte 0x84, 0x85   *)
(* or 0x8c) or "other".                                                    *)
(***************************************************************************)
Bytes(kind, head, to, text) == [kind |-> kind, head |-> head, to |-> to, text |-> text]

NoFile == Bytes("none", "other", "", "")
PlainBytes(t) == Bytes("text", "other", "", t)
RawBytes == Bytes("raw", "other", "", "")
Armor(to, t) == Bytes("pgp", "armor", to, t)
BinaryPgp(to, t) == Bytes("pgp", "pkt", to, t)
FakeArmor(t) == Bytes("text", "armor", "", t)   \* plain text that starts with a PGP header line

IsCiphertext(b) == b.kind = "pgp"
IsPlaintext(b) == b.kind \in {"text", "raw"}

Replacement == "\\uFFFD"

\* new TextDecoder().decode(bytes): invalid sequences become U+FFFD
TextDecode(b) ==
  CASE b.kind = "text" -> b.text
    [] b.kind = "raw" -> Replacement
    [] b.kind = "pgp" -> "-----BEGIN PGP MESSAGE-----"
    [] OTHER -> ""

\* fileContent.toString('utf-8')
BufferToString(b) == TextDecode(b)

\* new TextEncoder().encode(s)
TextEncode(s) == Bytes("text", "other", "", s)

\* openpgp.ts encrypt, when it does not throw: the armored message, encoded
Encrypt(content, publicKeyArmored) == Armor(publicKeyArmored.id, content)

\* openpgp.ts isAsciiArmored
isAsciiArmored(data) == data.head = "armor"

\* openpgp.ts decrypt succeeds: the message parses, the key is a private key,
\* a given passphrase unlocks it, and the unlocked key matches the recipient
DecryptSucceeds(encryptedData, privateKeyArmored, passphrase) ==
  /\ encryptedData.kind = "pgp"
  /\ privateKeyArmored.priv
  /\ passphrase # "" => passphrase = privateKeyArmored.lock
  /\ privateKeyArmored.lock # "" => passphrase = privateKeyArmored.lock
  /\ encryptedData.to = privateKeyArmored.id

Decrypt(encryptedData, privateKeyArmored, passphrase) == encryptedData.text

\* openpgp.ts isPassphraseRequired
isPassphraseRequired(armoredKey) == armoredKey.priv /\ armoredKey.lock # ""

(***************************************************************************)
(* JavaScript Map, as the sequence of its entries in insertion order.      *)
(***************************************************************************)
StoredKey(keyId, userId, isPrivate, armoredKey, isExternal, sourcePath) ==
  [keyId |-> keyId, userId |-> userId, isPrivate |-> isPrivate,
   armoredKey |-> armoredKey, isExternal |-> isExternal, sourcePath |-> sourcePath]

NoStoredKey == StoredKey("", "", FALSE, NoKey, FALSE, "")

\* an index by keyId alone
storageKey_idOnly(keyId, isPrivate) == keyId

storageKey(keyId, isPrivate) == keyId \o (IF isPrivate THEN "_private" ELSE "_public")

MapHas(m, k) == \E i \in 1..Len(m) : m[i].k = k

MapGet(m, k) ==
  IF MapHas(m, k) THEN m[CHOOSE i \in 1..Len(m) : m[i].k = k].v ELSE NoStoredKey

MapSet(m, k, v) ==
  IF MapHas(m, k)
  THEN [i \in 1..Len(m) |-> IF m[i].k = k THEN [k |-> k, v |-> v] ELSE m[i]]
  ELSE Append(m, [k |-> k, v |-> v])

MapDelete(m, k) == SelectSeq(m, LAMBDA e : e.k # k)

MapValues(m) == [i \in 1..Len(m) |-> m[i].v]

RECURSIVE MapMerge(_, _)
\* new Map([...a, ...b])
MapMerge(a, b) ==
  IF b = <<>> THEN a ELSE MapMerge(MapSet(a, Head(b).k, Head(b).v), Tail(b))

\* parseKeyInfo: the kind is read from the material, whatever the caller says
KeyInfo(keyId, userId, isPrivate) == [keyId |-> keyId, userId |-> userId, isPrivate |-> isPrivate]

parseKeyInfo(armoredKey, isPrivate) == KeyInfo(armoredKey.id, armoredKey.uid, armoredKey.priv)

ManagedRecord(a) == StoredKey(a.id, a.uid, a.priv, a, FALSE, "")

RECURSIVE MapOfManaged(_)
MapOfManaged(as) ==
  IF as = <<>> THEN <<>>
  ELSE LET a == as[Len(as)]
       IN MapSet(MapOfManaged(SubSeq(as, 1, Len(as) - 1)),
                 storageKey(a.id, a.priv), ManagedRecord(a))

(***************************************************************************)
(* KeyManager: the synchronous lookups.                                    *)
(***************************************************************************)
\* externalKeys.get(k) || cachedKeys.get(k)
Lookup_externalFirst(k) ==
  IF MapHas(externalKeys, k) THEN MapGet(externalKeys, k) ELSE MapGet(cachedKeys, k)

\* cachedKeys.get(k) || externalKeys.get(k)
Lookup(k) == IF MapHas(cachedKeys, k) THEN MapGet(cachedKeys, k) ELSE MapGet(externalKeys, k)

getKey(keyId, isPrivate) == Lookup(storageKey(keyId, isPrivate))

getPublicKey(keyId) ==
  LET stored == Lookup(storageKey(keyId, FALSE))
  IN IF stored # NoStoredKey /\ ~stored.isPrivate THEN stored.armoredKey ELSE NoKey

getPrivateKey(keyId) ==
  LET stored == Lookup(storageKey(keyId, TRUE))
  IN IF stored # NoStoredKey /\ stored.isPrivate THEN stored.armoredKey ELSE NoKey

\* keyManager.ts getKeyPassphraseStatus, with getPassphrase
getKeyPassphraseStatus(keyId) ==
  LET armoredKey == getPrivateKey(keyId)
      required == isPassphraseRequired(armoredKey)
  IN IF armoredKey = NoKey THEN [required |-> FALSE, stored |-> FALSE]
     ELSE [required |-> required, stored |-> required /\ secrets[keyId] # ""]

AllKeys == MapValues(MapMerge(cachedKeys, externalKeys))

InfoOf(k) == KeyInfo(k.keyId, k.userId, k.isPrivate)

listKeys == [i \in 1..Len(AllKeys) |-> InfoOf(AllKeys[i])]

listPublicKeys ==
  LET ks == SelectSeq(AllKeys, LAMBDA k : ~k.isPrivate)
  IN [i \in 1..Len(ks) |-> KeyInfo(ks[i].keyId, ks[i].userId, FALSE)]

\* a list that puts the external keys before the managed ones
listPrivateKeys_externalFirst ==
  LET ks == SelectSeq(MapValues(MapMerge(externalKeys, cachedKeys)), LAMBDA k : k.isPrivate)
  IN [i \in 1..Len(ks) |-> KeyInfo(ks[i].keyId, ks[i].userId, TRUE)]

listPrivateKeys ==
  LET ks == SelectSeq(AllKeys, LAMBDA k : k.isPrivate)
  IN [i \in 1..Len(ks) |-> KeyInfo(ks[i].keyId, ks[i].userId, TRUE)]

listStoredKeys == MapValues(cachedKeys)

listExternalKeys == MapValues(externalKeys)

getDefaultRecipient == defaultRecipient

\* config.ts getConfig
getConfig == config

(***************************************************************************)
(* EncryptedFileSystemProvider.writeFile                                   *)
(***************************************************************************)
WrIdle ==
  [pc |-> "idle", calls |-> 0, content |-> NoFile, prior |-> NoFile,
   recipientKeyId |-> "", publicKeys |-> <<>>, publicKeyArmored |-> NoKey,
   encryptedData |-> NoFile, error |-> "", picked |-> FALSE, warned |-> FALSE,
   fired |-> 0]

\* a write that leaves the plain content in the file
PersistedBytes_plain(w) == w.content

\* line 238: what fs.writeFile(filePath, encryptedData) puts in the file
PersistedBytes(w) == w.encryptedData

\* the throw of the catch block: the call is over, the error goes to the caller
WrThrow(w, err) == [w EXCEPT !.pc = "failed", !.error = err]

\* lines 203-231: from the public key lookup to the call of encrypt
WrLookup(w, recipientKeyId) ==
  LET publicKeyArmored == getPublicKey(recipientKeyId)
      w1 == [w EXCEPT !.recipientKeyId = recipientKeyId,
                      !.publicKeyArmored = publicKeyArmored]
  IN IF publicKeyArmored = NoKey THEN WrThrow(w1, "KeyNotFound")
     ELSE IF getPrivateKey(recipientKeyId) = NoKey
          THEN [w1 EXCEPT !.pc = "awaitWarning", !.warned = TRUE]
          ELSE [w1 EXCEPT !.pc = "awaitEncrypt"]

\* a selection that shows the quick pick without looking at the list
WrSelect_prompts(w) ==
  [w EXCEPT !.pc = "awaitPick", !.publicKeys = listPublicKeys, !.picked = TRUE]

\* lines 166-185: no recipient is set; the user is asked to pick a public key
WrSelect(w) ==
  LET publicKeys == listPublicKeys
  IN IF Len(publicKeys) = 0 THEN WrThrow(w, "NoPublicKey")
     ELSE [w EXCEPT !.pc = "awaitPick", !.publicKeys = publicKeys, !.picked = TRUE]

\* lines 158-164: the stored default, else the configured one
WrDefaultRecipient ==
  IF getDefaultRecipient # "" THEN getDefaultRecipient ELSE getConfig.defaultRecipient

\* lines 148-185: the call, up to the first prompt or to the call of encrypt
WriteStart(content) ==
  /\ wr.pc \in {"idle", "done", "failed"}
  /\ wr.calls <= MaxCalls
  /\ LET w == [WrIdle EXCEPT !.calls = wr.calls + 1, !.content = content, !.prior = disk,
                             !.fired = wr.fired]
     IN wr' = IF WrDefaultRecipient = "" THEN WrSelect(w) ELSE WrLookup(w, WrDefaultRecipient)
  /\ UNCHANGED <<kmVars, defaultRecipient, secrets, config, disk, rd, sv, km, seen, fsCall>>

\* lines 187-196; selected = 0 is the cancelled pick
WriteAfterPick(selected) ==
  /\ wr.pc = "awaitPick"
  /\ selected \in 0..Len(wr.publicKeys)
  /\ wr' = IF selected = 0 THEN WrThrow(wr, "NoSelection")
           ELSE [wr EXCEPT !.pc = "awaitSetDefaultPick",
                           !.recipientKeyId = wr.publicKeys[selected].keyId]
  /\ UNCHANGED <<kmVars, defaultRecipient, secrets, config, disk, rd, sv, seen, km, fsCall>>

\* lines 198-200; setDefaultRecipient updates the global state at once
WriteAfterSetDefaultPick(setDefault) ==
  /\ wr.pc = "awaitSetDefaultPick"
  /\ setDefault \in {"Yes", "No", ""}
  /\ IF setDefault = "Yes"
     THEN /\ defaultRecipient' = wr.recipientKeyId
          /\ wr' = [wr EXCEPT !.pc = "awaitSetDefault"]
     ELSE /\ wr' = WrLookup(wr, wr.recipientKeyId)
          /\ UNCHANGED defaultRecipient
  /\ UNCHANGED <<kmVars, secrets, config, disk, rd, sv, seen, km, fsCall>>

WriteAfterSetDefault ==
  /\ wr.pc = "awaitSetDefault"
  /\ wr' = WrLookup(wr, wr.recipientKeyId)
  /\ UNCHANGED <<kmVars, defaultRecipient, secrets, config, disk, rd, sv, seen, km, fsCall>>

\* lines 221-231
WriteAfterWarning(proceed) ==
  /\ wr.pc = "awaitWarning"
  /\ proceed \in {"Proceed Anyway", "Cancel", ""}
  /\ wr' = IF proceed # "Proceed Anyway" THEN WrThrow(wr, "Cancelled")
           ELSE [wr EXCEPT !.pc = "awaitEncrypt"]
  /\ UNCHANGED <<kmVars, defaultRecipient, secrets, config, disk, rd, sv, seen, km, fsCall>>

\* lines 231-235: encrypt returns or throws; then fs.mkdir is called
WriteAfterEncrypt(ok) ==
  /\ wr.pc = "awaitEncrypt"
  /\ ok \in BOOLEAN
  /\ wr' = IF ~ok THEN WrThrow(wr, "EncryptError")
           ELSE [wr EXCEPT !.pc = "awaitMkdir",
                           !.encryptedData = Encrypt(TextDecode(wr.content), wr.publicKeyArmored)]
  /\ UNCHANGED <<kmVars, defaultRecipient, secrets, config, disk, rd, sv, seen, km, fsCall>>

\* lines 235-238: fs.mkdir returns or throws; then fs.writeFile is called
WriteAfterMkdir(ok) ==
  /\ wr.pc = "awaitMkdir"
  /\ ok \in BOOLEAN
  /\ wr' = IF ok THEN [wr EXCEPT !.pc = "awaitWrite"] ELSE WrThrow(wr, "MkdirError")
  /\ UNCHANGED <<kmVars, defaultRecipient, secrets, config, disk, rd, sv, seen, km, fsCall>>

\* lines 238-245: fs.writeFile has replaced the file (or was refused); the event is fired
WriteAfterWrite(ok) ==
  /\ wr.pc = "awaitWrite"
  /\ ok \in BOOLEAN
  /\ IF ok
     THEN /\ disk' = PersistedBytes(wr)
          /\ wr' = [wr EXCEPT !.pc = "done", !.fired = wr.fired + 1]
     ELSE /\ wr' = WrThrow(wr, "WriteError")
          /\ UNCHANGED disk
  /\ UNCHANGED <<kmVars, defaultRecipient, secrets, config, rd, sv, seen, km, fsCall>>

WriteFile ==
  \/ \E content \in ({PlainBytes(t) : t \in Texts} \cup {RawBytes}) : WriteStart(content)
  \/ \E selected \in 0..Len(wr.publicKeys) : WriteAfterPick(selected)
  \/ \E setDefault \in {"Yes", "No", ""} : WriteAfterSetDefaultPick(setDefault)
  \/ WriteAfterSetDefault
  \/ \E proceed \in {"Proceed Anyway", "Cancel", ""} : WriteAfterWarning(proceed)
  \/ \E ok \in BOOLEAN : WriteAfterEncrypt(ok)
  \/ \E ok \in BOOLEAN : WriteAfterMkdir(ok)
  \/ \E ok \in BOOLEAN : WriteAfterWrite(ok)


(***************************************************************************)
(* extension.ts: the onDidSaveTextDocument handler                         *)
(***************************************************************************)
SvIdle ==
  [pc |-> "idle", calls |-> 0, scheme |-> "", encryptedExt |-> FALSE,
   saved |-> NoFile, plainText |-> "", recipientKeyId |-> "", publicKeys |-> <<>>,
   publicKeyArmored |-> NoKey, encryptedData |-> NoFile, outcome |-> ""]

\* a return, or the end of the catch block: the handler is over
SvEnd(h, outcome) == [h EXCEPT !.pc = "done", !.outcome = outcome]

\* lines 117-120
alreadyEncrypted(fileContent) ==
  isAsciiArmored(fileContent) \/ fileContent.head = "pkt"

\* lines 180-188: from the public key lookup to the call of encrypt
SvLookup(h, recipientKeyId) ==
  LET publicKeyArmored == getPublicKey(recipientKeyId)
      h1 == [h EXCEPT !.recipientKeyId = recipientKeyId,
                      !.publicKeyArmored = publicKeyArmored]
  IN IF publicKeyArmored = NoKey THEN SvEnd(h1, "KeyNotFound")
     ELSE [h1 EXCEPT !.pc = "awaitEncrypt"]

\* lines 101-114: the editor has saved the document (a file-scheme document is
\* written to the file as it is), the handler starts and reads the file
SaveStart(scheme, encryptedExt, bytes) ==
  /\ sv.pc \in {"idle", "done"}
  /\ sv.calls <= MaxCalls
  /\ sv' = IF scheme # "file" \/ ~encryptedExt
           THEN [SvIdle EXCEPT !.pc = "done", !.calls = sv.calls + 1, !.scheme = scheme,
                               !.encryptedExt = encryptedExt, !.saved = bytes,
                               !.outcome = "NotHandled"]
           ELSE [SvIdle EXCEPT !.pc = "awaitRead", !.calls = sv.calls + 1, !.scheme = scheme,
                               !.encryptedExt = encryptedExt, !.saved = bytes]
  /\ disk' = IF scheme = "file" THEN bytes ELSE disk
  /\ UNCHANGED <<kmVars, defaultRecipient, secrets, config, rd, wr, seen, km, fsCall>>

\* lines 135-162: no default recipient; the user is asked to pick a public key
SvSelect(h) ==
  LET publicKeys == listPublicKeys
  IN IF Len(publicKeys) = 0 THEN SvEnd(h, "NoPublicKey")
     ELSE [h EXCEPT !.pc = "awaitPick", !.publicKeys = publicKeys]

\* lines 114-162: the file has been read (or not)
SaveAfterRead(ok) ==
  /\ sv.pc = "awaitRead"
  /\ ok \in BOOLEAN
  /\ sv' = IF ~ok THEN SvEnd(sv, "ReadError")
           ELSE IF alreadyEncrypted(disk) THEN SvEnd(sv, "AlreadyEncrypted")
           ELSE LET h == [sv EXCEPT !.plainText = BufferToString(disk)]
                IN IF getDefaultRecipient = "" THEN SvSelect(h)
                   ELSE SvLookup(h, getDefaultRecipient)
  /\ UNCHANGED <<kmVars, defaultRecipient, secrets, config, disk, rd, wr, km, seen, fsCall>>

\* lines 164-173; selected = 0 is the cancelled pick
SaveAfterPick(selected) ==
  /\ sv.pc = "awaitPick"
  /\ selected \in 0..Len(sv.publicKeys)
  /\ sv' = IF selected = 0 THEN SvEnd(sv, "NoSelection")
           ELSE [sv EXCEPT !.pc = "awaitSetDefaultPick",
                           !.recipientKeyId = sv.publicKeys[selected].keyId]
  /\ UNCHANGED <<kmVars, defaultRecipient, secrets, config, disk, rd, wr, seen, km, fsCall>>

\* lines 175-177
SaveAfterSetDefaultPick(setDefault) ==
  /\ sv.pc = "awaitSetDefaultPick"
  /\ setDefault \in {"Yes", "No", ""}
  /\ IF setDefault = "Yes"
     THEN /\ defaultRecipient' = sv.recipientKeyId
          /\ sv' = [sv EXCEPT !.pc = "awaitSetDefault"]
     ELSE /\ sv' = SvLookup(sv, sv.recipientKeyId)
          /\ UNCHANGED defaultRecipient
  /\ UNCHANGED <<kmVars, secrets, config, disk, rd, wr, seen, km, fsCall>>

SaveAfterSetDefault ==
  /\ sv.pc = "awaitSetDefault"
  /\ sv' = SvLookup(sv, sv.recipientKeyId)
  /\ UNCHANGED <<kmVars, defaultRecipient, secrets, config, disk, rd, wr, seen, km, fsCall>>

\* lines 188-190: encrypt returns or throws; then fs.writeFile is called
SaveAfterEncrypt(ok) ==
  /\ sv.pc = "awaitEncrypt"
  /\ ok \in BOOLEAN
  /\ sv' = IF ~ok THEN SvEnd(sv, "EncryptError")
           ELSE [sv EXCEPT !.pc = "awaitWrite",
                           !.encryptedData = Encrypt(sv.plainText, sv.publicKeyArmored)]
  /\ UNCHANGED <<kmVars, defaultRecipient, secrets, config, disk, rd, wr, seen, km, fsCall>>

\* lines 190-196: fs.writeFile has replaced the file (or was refused)
SaveAfterWrite(ok) ==
  /\ sv.pc = "awaitWrite"
  /\ ok \in BOOLEAN
  /\ IF ok
     THEN /\ disk' = sv.encryptedData
          /\ sv' = [sv EXCEPT !.pc = "awaitReopen"]
     ELSE /\ sv' = SvEnd(sv, "WriteError")
          /\ UNCHANGED disk
  /\ UNCHANGED <<kmVars, defaultRecipient, secrets, config, rd, wr, seen, km, fsCall>>

\* lines 196-202: the editor is closed and the gpgfs document shown, or that throws
SaveAfterReopen(ok) ==
  /\ sv.pc = "awaitReopen"
  /\ ok \in BOOLEAN
  /\ sv' = SvEnd(sv, IF ok THEN "Encrypted" ELSE "ReopenError")
  /\ UNCHANGED <<kmVars, defaultRecipient, secrets, config, disk, rd, wr, seen, km, fsCall>>

SaveHandler ==
  \/ \E scheme \in {"file", "gpgfs"}, encryptedExt \in BOOLEAN,
        bytes \in {PlainBytes(t) : t \in Texts}
                    \cup {FakeArmor("p"), RawBytes, Bytes("raw", "pkt", "", ""), Armor("A", "q")} :
        SaveStart(scheme, encryptedExt, bytes)
  \/ \E ok \in BOOLEAN : SaveAfterRead(ok)
  \/ \E selected \in 0..Len(sv.publicKeys) : SaveAfterPick(selected)
  \/ \E setDefault \in {"Yes", "No", ""} : SaveAfterSetDefaultPick(setDefault)
  \/ SaveAfterSetDefault
  \/ \E ok \in BOOLEAN : SaveAfterEncrypt(ok)
  \/ \E ok \in BOOLEAN : SaveAfterWrite(ok)
  \/ \E ok \in BOOLEAN : SaveAfterReopen(ok)


(***************************************************************************)
(* The file system under the configured key paths (it does not change).    *)
(* A file is the sequence of the key blocks extractKeyBlocks finds in it.  *)
(***************************************************************************)
BadBlock == Key("?", FALSE, "", "")   \* a delimited block that openpgp cannot parse

FsEntry(t, readable, blocks, entries) ==
  [t |-> t, readable |-> readable, blocks |-> blocks, entries |-> entries]

Fs(path) ==
  CASE path = "f1" -> FsEntry("file", TRUE, <<Key("A", TRUE, "", "A-f1"), BadBlock, Key("A", FALSE, "", "A-f1")>>, <<>>)
    [] path = "f2" -> FsEntry("file", TRUE, <<Key("B", FALSE, "", "B-f2")>>, <<>>)
    [] path = "d" -> FsEntry("dir", TRUE, <<>>, <<"d/k.asc", "d/notes.txt", "d/locked", "d/sub">>)
    [] path = "d/k.asc" -> FsEntry("file", TRUE, <<Key("B", TRUE, "x", "B-d")>>, <<>>)
    [] path = "d/notes.txt" -> FsEntry("file", TRUE, <<Key("A", FALSE, "", "A-notes")>>, <<>>)
    [] path = "d/locked" -> FsEntry("dir", FALSE, <<>>, <<>>)
    [] path = "d/sub" -> FsEntry("dir", TRUE, <<>>, <<"d/sub/x.gpg", "d/sub/keyring">>)
    [] path = "d/sub/x.gpg" -> FsEntry("file", FALSE, <<>>, <<>>)
    [] path = "d/sub/keyring" -> FsEntry("file", TRUE, <<Key("B", FALSE, "", "B-ring")>>, <<>>)
    [] OTHER -> FsEntry("missing", FALSE, <<>>, <<>>)

\* lines 154-157: keyExtensions.includes(ext) || entry.name.startsWith('keyring')
HasKeyName(path) == path \in {"d/k.asc", "d/sub/x.gpg", "d/sub/keyring"}

KeyPathChoices == {<<>>, <<"f1">>, <<"f2">>, <<"nope", "d">>}

(***************************************************************************)
(* KeyManager.loadKeysFromPaths, with loadKeysFromFile and                 *)
(* loadKeysFromDirectory: the pending work of one call is a stack of       *)
(* items, each an await in progress (fs.stat of a path, fs.readFile of a   *)
(* file, fs.readdir of a directory, parseKeyInfo of a block).              *)
(***************************************************************************)
Item(t, path, block) == [t |-> t, path |-> path, block |-> block]

LoadIdle == [state |-> "idle", keyPaths |-> <<>>, work |-> <<>>, before |-> <<>>, overlapped |-> FALSE]

\* line 119: externalKeys.set(compositeKey, {...})
SetExternal(map, block, filePath) ==
  LET keyInfo == parseKeyInfo(block, block.priv)
  IN MapSet(map, storageKey(keyInfo.keyId, keyInfo.isPrivate),
            StoredKey(keyInfo.keyId, keyInfo.userId, keyInfo.isPrivate, block, TRUE, filePath))

\* the directory entries loadKeysFromDirectory goes into, in order (lines 146-160)
DirItems(dirPath) ==
  LET es == SelectSeq(Fs(dirPath).entries,
                      LAMBDA e : Fs(e).t = "dir" \/ (Fs(e).t = "file" /\ HasKeyName(e)))
  IN [i \in 1..Len(es) |-> Item(Fs(es[i]).t, es[i], NoKey)]

BlockItems(filePath) ==
  LET bs == Fs(filePath).blocks
  IN [i \in 1..Len(bs) |-> Item("block", filePath, bs[i])]

\* a loader that gives up at the first path or file it cannot read
WorkAfter_aborts(work) ==
  LET it == Head(work)
      rest == Tail(work)
      e == Fs(it.path)
  IN CASE it.t = "path" ->
            IF e.t = "missing" THEN <<>>
            ELSE <<Item(e.t, it.path, NoKey)>> \o rest
       [] it.t = "file" -> IF e.readable THEN BlockItems(it.path) \o rest ELSE <<>>
       [] it.t = "dir" -> IF e.readable THEN DirItems(it.path) \o rest ELSE <<>>
       [] OTHER -> rest

\* the await at the top of the stack returns: the work that is left
WorkAfter(work) ==
  LET it == Head(work)
      rest == Tail(work)
      e == Fs(it.path)
  IN CASE it.t = "path" ->
            IF e.t = "missing" THEN rest
            ELSE <<Item(e.t, it.path, NoKey)>> \o rest
       [] it.t = "file" -> IF e.readable THEN BlockItems(it.path) \o rest ELSE rest
       [] it.t = "dir" -> IF e.readable THEN DirItems(it.path) \o rest ELSE rest
       [] OTHER -> rest

\* a loader that keeps the record an identity already has
ExternalAfter_keepsFirst(work, map) ==
  LET it == Head(work)
  IN IF it.t = "block" /\ it.block # BadBlock
        /\ ~MapHas(map, storageKey(it.block.id, it.block.priv))
     THEN SetExternal(map, it.block, it.path) ELSE map

\* the await at the top of the stack returns: the external map afterwards
ExternalAfter(work, map) ==
  LET it == Head(work)
  IN IF it.t = "block" /\ it.block # BadBlock THEN SetExternal(map, it.block, it.path) ELSE map

\* lines 75-81: what the call does to the map before its first await
ExternalAtStart(keyPaths, map) == IF Len(keyPaths) = 0 THEN map ELSE <<>>

PathItems(keyPaths) == [i \in 1..Len(keyPaths) |-> Item("path", keyPaths[i], NoKey)]

RECURSIVE RunLoad(_, _)
RunLoad(work, map) ==
  IF work = <<>> THEN map ELSE RunLoad(WorkAfter(work), ExternalAfter(work, map))

\* the external map one undisturbed loadKeysFromPaths call over keyPaths leaves
ScanResult(keyPaths, map) == RunLoad(PathItems(keyPaths), ExternalAtStart(keyPaths, map))

LoadIds == 1..(MaxLoads + 1)

InFlight == {l \in LoadIds : loads[l].state = "running"}

\* lines 71-85: the synchronous start of load l
StartedLoad(keyPaths) ==
  [state |-> IF Len(keyPaths) = 0 THEN "done" ELSE "running",
   keyPaths |-> keyPaths, work |-> PathItems(keyPaths),
   before |-> externalKeys, overlapped |-> InFlight # {}]

\* extension.ts lines 32-48 with reloadKeysFromPaths (lines 197-202): gpg.keyPaths
\* changes and the handler starts a reload
ConfigChange(keyPaths) ==
  /\ keyPaths # config.keyPaths
  /\ \E l \in LoadIds :
       /\ loads[l].state = "idle"
       /\ \A k \in LoadIds : k < l => loads[k].state # "idle"
       /\ loads' = [loads EXCEPT ![l] = StartedLoad(keyPaths)]
       /\ loadKeysPromise' = l
  /\ config' = [config EXCEPT !.keyPaths = keyPaths]
  /\ externalKeys' = ExternalAtStart(keyPaths, externalKeys)
  /\ UNCHANGED <<cachedKeys, storedKeys, defaultRecipient, secrets, disk, rd, wr, sv, seen, km, fsCall>>

\* lines 197-202: reloadKeysFromPaths is called while gpg.keyPaths is as it was
\* (the configuration event fires for a change that leaves the effective value)
Reload ==
  /\ \E l \in LoadIds :
       /\ loads[l].state = "idle"
       /\ \A k \in LoadIds : k < l => loads[k].state # "idle"
       /\ loads' = [loads EXCEPT ![l] = StartedLoad(config.keyPaths)]
       /\ loadKeysPromise' = l
  /\ externalKeys' = ExternalAtStart(config.keyPaths, externalKeys)
  /\ UNCHANGED <<cachedKeys, storedKeys, defaultRecipient, secrets, config, disk, rd, wr, sv,
                 seen, km, fsCall>>

\* one await of load l returns
LoadStep(l) ==
  /\ loads[l].state = "running"
  /\ LET work == WorkAfter(loads[l].work)
     IN loads' = [loads EXCEPT ![l].work = work,
                               ![l].state = IF work = <<>> THEN "done" ELSE "running"]
  /\ externalKeys' = ExternalAfter(loads[l].work, externalKeys)
  /\ UNCHANGED <<cachedKeys, storedKeys, defaultRecipient, secrets, config,
                 loadKeysPromise, disk, rd, wr, sv, seen, km, fsCall>>

\* a reader (listKeys, listExternalKeys, getKey, ...) runs and sees the external map
\* during: the one load that is in flight, if it started with no other in flight
ReadRegistry ==
  /\ seen' = [during |-> IF InFlight = {loadKeysPromise} /\ ~loads[loadKeysPromise].overlapped
                         THEN loadKeysPromise ELSE 0,
              external |-> listExternalKeys]
  /\ seen' # seen
  /\ UNCHANGED <<kmVars, defaultRecipient, secrets, config, disk, rd, wr, sv, km, fsCall>>


(***************************************************************************)
(* KeyManager.importKey and KeyManager.removeKey                           *)
(***************************************************************************)
Slots == 1..MaxKeyCalls

\* openpgp.ts KeyPair; keyId "" = no pair yet
KeyPair(privateKey, publicKey, keyId) ==
  [privateKey |-> privateKey, publicKey |-> publicKey, keyId |-> keyId]

KmIdle == [op |-> "", pc |-> "idle", keyId |-> "", isPrivate |-> FALSE, armoredKey |-> NoKey,
           result |-> "", userId |-> "", passphrase |-> "", keyPair |-> KeyPair(NoKey, NoKey, ""),
           backups |-> {}, promise |-> 0, keyData |-> <<>>, keyBlocks |-> <<>>, i |-> 0]

\* keyData.split('\n'): line n of the file, with the markers it contains
\* ("begin": -----BEGIN PGP, "end": -----END PGP, "both", or "text": neither)
Lines(marks) == [n \in 1..Len(marks) |-> [n |-> n, mark |-> marks[n]]]

\* keyManager.ts lines 176-188: the loop of extractKeyBlocks over the lines left
RECURSIVE ExtractLoop(_, _, _, _)
ExtractLoop(lines, currentBlock, inBlock, keyBlocks) ==
  IF lines = <<>> THEN keyBlocks
  ELSE LET line == Head(lines)
       IN IF line.mark \in {"begin", "both"}
          THEN ExtractLoop(Tail(lines), <<line>>, TRUE, keyBlocks)
          ELSE IF line.mark = "end"
          THEN ExtractLoop(Tail(lines), <<>>, FALSE, Append(keyBlocks, Append(currentBlock, line)))
          ELSE IF inBlock
          THEN ExtractLoop(Tail(lines), Append(currentBlock, line), inBlock, keyBlocks)
          ELSE ExtractLoop(Tail(lines), currentBlock, inBlock, keyBlocks)

\* keyManager.ts extractKeyBlocks; a block is the sequence of its lines
extractKeyBlocks(keyData) == ExtractLoop(keyData, <<>>, FALSE, <<>>)

\* extractKeyBlocks is called (it is synchronous) and returns
ExtractKeyBlocks(n, keyData) ==
  /\ \A k \in Slots : km[k].pc = "idle"
  /\ km' = [km EXCEPT ![n] = [KmIdle EXCEPT !.op = "extractKeyBlocks", !.pc = "done",
                                            !.keyData = keyData,
                                            !.keyBlocks = extractKeyBlocks(keyData)]]
  /\ UNCHANGED <<kmVars, defaultRecipient, secrets, config, disk, rd, wr, sv, seen, fsCall>>

\* keyManager.ts lines 207-209: awaitKeysLoaded is called; it awaits the promise
\* that loadKeysPromise holds at this moment
AwaitKeysLoadedStart(n) ==
  /\ km[n].pc = "idle"
  /\ \A k \in Slots : k < n => km[k].pc # "idle"
  /\ km' = [km EXCEPT ![n] = [KmIdle EXCEPT !.op = "awaitKeysLoaded",
                                            !.pc = IF loadKeysPromise = 0 THEN "done"
                                                   ELSE "awaitPromise",
                                            !.promise = loadKeysPromise]]
  /\ UNCHANGED <<kmVars, defaultRecipient, secrets, config, disk, rd, wr, sv, seen, fsCall>>

\* lines 209-211: the awaited promise is resolved; awaitKeysLoaded returns
AwaitKeysLoadedReturn(n) ==
  /\ km[n].op = "awaitKeysLoaded" /\ km[n].pc = "awaitPromise"
  /\ loads[km[n].promise].state = "done"
  /\ km' = [km EXCEPT ![n].pc = "done"]
  /\ UNCHANGED <<kmVars, defaultRecipient, secrets, config, disk, rd, wr, sv, seen, fsCall>>

\* a load that indexes the stored records by keyId alone
RECURSIVE loadKeysFromStorage_byKeyId(_)
loadKeysFromStorage_byKeyId(stored) ==
  IF stored = <<>> THEN <<>>
  ELSE LET key == stored[Len(stored)]
       IN MapSet(loadKeysFromStorage_byKeyId(SubSeq(stored, 1, Len(stored) - 1)),
                 key.keyId, key)

\* lines 48-56: the managed map a new KeyManager builds from the persisted list
RECURSIVE loadKeysFromStorage(_)
loadKeysFromStorage(stored) ==
  IF stored = <<>> THEN <<>>
  ELSE LET key == stored[Len(stored)]
       IN MapSet(loadKeysFromStorage(SubSeq(stored, 1, Len(stored) - 1)),
                 storageKey(key.keyId, key.isPrivate), key)

\* a save that persists the external records with the managed ones
saveKeysToStorage_all(map) == MapValues(MapMerge(map, externalKeys))

\* lines 61-63: the list handed to globalState.update, which sets it at once
saveKeysToStorage(map) == MapValues(map)

\* lines 216-220: the call; parseKeyInfo is awaited
ImportStart(n, armoredKey, isPrivate) ==
  /\ km[n].pc = "idle"
  /\ \A k \in Slots : k < n => km[k].pc # "idle"
  /\ km' = [km EXCEPT ![n] = [KmIdle EXCEPT !.op = "importKey", !.pc = "awaitParse",
                                            !.armoredKey = armoredKey,
                                            !.isPrivate = isPrivate]]
  /\ UNCHANGED <<kmVars, defaultRecipient, secrets, config, disk, rd, wr, sv, seen, fsCall>>

\* lines 220-238: the key is set in the map and saveKeysToStorage is called
ImportAfterParse(n) ==
  /\ km[n].op = "importKey" /\ km[n].pc = "awaitParse"
  /\ IF km[n].armoredKey = BadBlock
     THEN /\ km' = [km EXCEPT ![n].pc = "done", ![n].result = "Invalid key format"]
          /\ UNCHANGED <<cachedKeys, storedKeys>>
     ELSE LET keyInfo == parseKeyInfo(km[n].armoredKey, km[n].isPrivate)
              map == MapSet(cachedKeys, storageKey(keyInfo.keyId, keyInfo.isPrivate),
                            StoredKey(keyInfo.keyId, keyInfo.userId, keyInfo.isPrivate,
                                      km[n].armoredKey, FALSE, ""))
          IN /\ cachedKeys' = map
             /\ storedKeys' = saveKeysToStorage(map)
             /\ km' = [km EXCEPT ![n].pc = "awaitSave", ![n].keyId = keyInfo.keyId,
                                 ![n].isPrivate = keyInfo.isPrivate]
  /\ UNCHANGED <<externalKeys, loadKeysPromise, loads, defaultRecipient, secrets, config,
                 disk, rd, wr, sv, seen, fsCall>>

\* lines 238-239
ImportAfterSave(n) ==
  /\ km[n].op = "importKey" /\ km[n].pc = "awaitSave"
  /\ km' = [km EXCEPT ![n].pc = "done", ![n].result = "imported"]
  /\ UNCHANGED <<kmVars, defaultRecipient, secrets, config, disk, rd, wr, sv, seen, fsCall>>

\* removeKey without the check of the external map
RemoveStart_uncheckedOrigin(n, keyId, isPrivate) ==
  /\ km[n].pc = "idle"
  /\ \A k \in Slots : k < n => km[k].pc # "idle"
  /\ LET compositeKey == storageKey(keyId, isPrivate)
         call == [KmIdle EXCEPT !.op = "removeKey", !.keyId = keyId, !.isPrivate = isPrivate]
     IN IF MapHas(cachedKeys, compositeKey)
        THEN /\ cachedKeys' = MapDelete(cachedKeys, compositeKey)
             /\ storedKeys' = saveKeysToStorage(MapDelete(cachedKeys, compositeKey))
             /\ km' = [km EXCEPT ![n] = [call EXCEPT !.pc = "awaitSave"]]
        ELSE /\ km' = [km EXCEPT ![n] = [call EXCEPT !.pc = "done", !.result = "false"]]
             /\ UNCHANGED <<cachedKeys, storedKeys>>
  /\ UNCHANGED <<externalKeys, loadKeysPromise, loads, defaultRecipient, secrets, config,
                 disk, rd, wr, sv, seen, fsCall>>

\* lines 339-353: the call, up to the await of saveKeysToStorage
RemoveStart(n, keyId, isPrivate) ==
  /\ km[n].pc = "idle"
  /\ \A k \in Slots : k < n => km[k].pc # "idle"
  /\ LET compositeKey == storageKey(keyId, isPrivate)
         call == [KmIdle EXCEPT !.op = "removeKey", !.keyId = keyId, !.isPrivate = isPrivate]
     IN IF MapHas(externalKeys, compositeKey)
        THEN /\ km' = [km EXCEPT ![n] = [call EXCEPT !.pc = "done",
                                                     !.result = "Cannot remove external key"]]
             /\ UNCHANGED <<cachedKeys, storedKeys>>
        ELSE IF MapHas(cachedKeys, compositeKey)
        THEN /\ cachedKeys' = MapDelete(cachedKeys, compositeKey)
             /\ storedKeys' = saveKeysToStorage(MapDelete(cachedKeys, compositeKey))
             /\ km' = [km EXCEPT ![n] = [call EXCEPT !.pc = "awaitSave"]]
        ELSE /\ km' = [km EXCEPT ![n] = [call EXCEPT !.pc = "done", !.result = "false"]]
             /\ UNCHANGED <<cachedKeys, storedKeys>>
  /\ UNCHANGED <<externalKeys, loadKeysPromise, loads, defaultRecipient, secrets, config,
                 disk, rd, wr, sv, seen, fsCall>>

\* lines 353-355: storePassphrase(keyId, undefined) is called
RemoveAfterSave(n) ==
  /\ km[n].op = "removeKey" /\ km[n].pc = "awaitSave"
  /\ km' = [km EXCEPT ![n].pc = "awaitDelete"]
  /\ UNCHANGED <<kmVars, defaultRecipient, secrets, config, disk, rd, wr, sv, seen, fsCall>>

\* removeKey that returns without deleting the passphrase
RemoveAfterDelete_keepsSecret(n) ==
  /\ km[n].op = "removeKey" /\ km[n].pc = "awaitDelete"
  /\ km' = [km EXCEPT ![n].pc = "done", ![n].result = "true"]
  /\ UNCHANGED <<kmVars, secrets, defaultRecipient, config, disk, rd, wr, sv, seen, fsCall>>

\* lines 385-386, 358: secrets.delete is done
RemoveAfterDelete(n) ==
  /\ km[n].op = "removeKey" /\ km[n].pc = "awaitDelete"
  /\ secrets' = [secrets EXCEPT ![km[n].keyId] = ""]
  /\ km' = [km EXCEPT ![n].pc = "done", ![n].result = "true"]
  /\ UNCHANGED <<kmVars, defaultRecipient, config, disk, rd, wr, sv, seen, fsCall>>

\* keyManager.ts lines 379-385: storePassphrase is called; secrets.store (or,
\* for no passphrase, secrets.delete) is awaited
StorePassphraseStart(n, keyId, passphrase) ==
  /\ km[n].pc = "idle"
  /\ \A k \in DOMAIN km : k < n => km[k].pc # "idle"
  /\ km' = [km EXCEPT ![n] = [KmIdle EXCEPT !.op = "storePassphrase", !.pc = "awaitSecrets",
                                            !.keyId = keyId, !.passphrase = passphrase]]
  /\ UNCHANGED <<kmVars, defaultRecipient, secrets, config, disk, rd, wr, sv, seen, fsCall>>

\* lines 382-388: the secret store has stored (or deleted) the entry
StorePassphraseAfterSecrets(n) ==
  /\ km[n].op = "storePassphrase" /\ km[n].pc = "awaitSecrets"
  /\ secrets' = [secrets EXCEPT ![km[n].keyId] = km[n].passphrase]
  /\ km' = [km EXCEPT ![n].pc = "done"]
  /\ UNCHANGED <<kmVars, defaultRecipient, config, disk, rd, wr, sv, seen, fsCall>>

\* clearAll that deletes the passphrase of every key it is about to forget
ClearAllStart_secretsFirst(n) ==
  /\ km[n].pc = "idle"
  /\ \A k \in DOMAIN km : k < n => km[k].pc # "idle"
  /\ cachedKeys' = <<>>
  /\ storedKeys' = <<>>
  /\ secrets' = [k \in DOMAIN secrets |->
                   IF \E e \in 1..Len(cachedKeys) : cachedKeys[e].v.keyId = k THEN ""
                   ELSE secrets[k]]
  /\ km' = [km EXCEPT ![n] = [KmIdle EXCEPT !.op = "clearAll", !.pc = "awaitUpdateKeys"]]
  /\ UNCHANGED <<externalKeys, loadKeysPromise, loads, defaultRecipient, config,
                 disk, rd, wr, sv, seen, fsCall>>

\* lines 437-439: clearAll is called; the map is cleared and the empty key list
\* is handed to the global state
ClearAllStart(n) ==
  /\ km[n].pc = "idle"
  /\ \A k \in DOMAIN km : k < n => km[k].pc # "idle"
  /\ cachedKeys' = <<>>
  /\ storedKeys' = <<>>
  /\ km' = [km EXCEPT ![n] = [KmIdle EXCEPT !.op = "clearAll", !.pc = "awaitUpdateKeys"]]
  /\ UNCHANGED <<externalKeys, loadKeysPromise, loads, defaultRecipient, secrets, config,
                 disk, rd, wr, sv, seen, fsCall>>

\* line 440: the default recipient is set to undefined
ClearAllAfterKeys(n) ==
  /\ km[n].op = "clearAll" /\ km[n].pc = "awaitUpdateKeys"
  /\ defaultRecipient' = ""
  /\ km' = [km EXCEPT ![n].pc = "awaitUpdateDefault"]
  /\ UNCHANGED <<kmVars, secrets, config, disk, rd, wr, sv, seen, fsCall>>

\* lines 443-447: the loop over cachedKeys.keys(), as the map is now: after the
\* update of the default, or after the storePassphrase(key, undefined) of entry
\* i, whose name is the key of the map entry
ClearAllLoop(n) ==
  /\ km[n].op = "clearAll" /\ km[n].pc \in {"awaitUpdateDefault", "awaitDeleteSecret"}
  /\ secrets' = IF km[n].pc = "awaitDeleteSecret"
                THEN [k \in DOMAIN secrets |-> IF k = km[n].keyId THEN "" ELSE secrets[k]]
                ELSE secrets
  /\ km' = IF km[n].i + 1 <= Len(cachedKeys)
           THEN [km EXCEPT ![n].pc = "awaitDeleteSecret", ![n].i = km[n].i + 1,
                           ![n].keyId = cachedKeys[km[n].i + 1].k]
           ELSE [km EXCEPT ![n].pc = "done"]
  /\ UNCHANGED <<kmVars, defaultRecipient, config, disk, rd, wr, sv, seen, fsCall>>


(***************************************************************************)
(* The gpg.generateKey command (keyCommands.ts), with generateKeyPair and  *)
(* getKeyId (openpgp.ts).  The command runs in a slot of km; the two       *)
(* importKey calls it awaits are part of it.                               *)
(***************************************************************************)
Dismissed == "(dismissed)"   \* an input box closed without an answer: undefined

\* the key id openpgp gives the key it generates
GeneratedKeyId == "C"

\* openpgp.ts getKeyId: the primary user's ID string, else the hex key id
getKeyId(key) == IF key.uid # "" THEN key.uid ELSE key.id

\* openpgp.ts generateKeyPair
generateKeyPair(userId, passphrase) ==
  LET privateKey == Key(GeneratedKeyId, TRUE, passphrase, userId)
      publicKey == Key(GeneratedKeyId, FALSE, "", userId)
  IN KeyPair(privateKey, publicKey, getKeyId(publicKey))

\* the command is run; the user ID is asked for
GenStart(n) ==
  /\ km[n].pc = "idle"
  /\ \A k \in Slots : k < n => km[k].pc # "idle"
  /\ km' = [km EXCEPT ![n] = [KmIdle EXCEPT !.op = "generateKey", !.pc = "awaitUserId"]]
  /\ UNCHANGED <<kmVars, defaultRecipient, secrets, config, disk, rd, wr, sv, seen, fsCall>>

\* step 1; userId = "" is the dismissed input box
GenAfterUserId(n, userId) ==
  /\ km[n].op = "generateKey" /\ km[n].pc = "awaitUserId"
  /\ km' = IF userId = "" THEN [km EXCEPT ![n].pc = "done", ![n].result = "cancelled"]
           ELSE [km EXCEPT ![n].pc = "awaitPassphrase", ![n].userId = userId]
  /\ UNCHANGED <<kmVars, defaultRecipient, secrets, config, disk, rd, wr, sv, seen, fsCall>>

\* step 2
GenAfterPassphrase(n, passphrase) ==
  /\ km[n].op = "generateKey" /\ km[n].pc = "awaitPassphrase"
  /\ km' = IF passphrase = Dismissed
           THEN [km EXCEPT ![n].pc = "done", ![n].result = "cancelled"]
           ELSE [km EXCEPT ![n].pc = "awaitConfirm", ![n].passphrase = passphrase]
  /\ UNCHANGED <<kmVars, defaultRecipient, secrets, config, disk, rd, wr, sv, seen, fsCall>>

\* the confirmation; generateKeyPair is called
GenAfterConfirm(n, confirmPassphrase) ==
  /\ km[n].op = "generateKey" /\ km[n].pc = "awaitConfirm"
  /\ km' = IF km[n].passphrase # confirmPassphrase
           THEN [km EXCEPT ![n].pc = "done", ![n].result = "Passphrases do not match"]
           ELSE [km EXCEPT ![n].pc = "awaitGenerate"]
  /\ UNCHANGED <<kmVars, defaultRecipient, secrets, config, disk, rd, wr, sv, seen, fsCall>>

\* generateKeyPair returns or throws; importKey(keyPair.publicKey, false) is called
GenAfterGenerate(n, ok) ==
  /\ km[n].op = "generateKey" /\ km[n].pc = "awaitGenerate"
  /\ km' = IF ~ok
           THEN [km EXCEPT ![n].pc = "done",
                           ![n].result = "Failed to generate key pair: generateKey"]
           ELSE [km EXCEPT ![n].pc = "awaitParsePublic",
                           ![n].keyPair = generateKeyPair(km[n].userId, km[n].passphrase)]
  /\ UNCHANGED <<kmVars, defaultRecipient, secrets, config, disk, rd, wr, sv, seen, fsCall>>

\* importKey lines 220-238, of the public key and then of the private key:
\* parseKeyInfo has returned, the key is put in the map and the map is saved
GenAfterParse(n) ==
  /\ km[n].op = "generateKey" /\ km[n].pc \in {"awaitParsePublic", "awaitParsePrivate"}
  /\ LET isPrivate == km[n].pc = "awaitParsePrivate"
         armoredKey == IF isPrivate THEN km[n].keyPair.privateKey ELSE km[n].keyPair.publicKey
         keyInfo == parseKeyInfo(armoredKey, isPrivate)
     IN /\ cachedKeys' = MapSet(cachedKeys, storageKey(keyInfo.keyId, keyInfo.isPrivate),
                                StoredKey(keyInfo.keyId, keyInfo.userId, keyInfo.isPrivate,
                                          armoredKey, FALSE, ""))
        /\ km' = [km EXCEPT ![n].pc = IF isPrivate THEN "awaitSavePrivate" ELSE "awaitSavePublic"]
  /\ storedKeys' = saveKeysToStorage(cachedKeys')
  /\ UNCHANGED <<externalKeys, loadKeysPromise, loads, defaultRecipient, secrets, config,
                 disk, rd, wr, sv, seen, fsCall>>

\* a command that names the default recipient by the id the keys are stored under
GenDefaultRecipient_storedId(n) == parseKeyInfo(km[n].keyPair.publicKey, FALSE).keyId

\* what the command hands to storePassphrase and setDefaultRecipient
GenDefaultRecipient(n) == km[n].keyPair.keyId

\* an importKey has returned.  After the public key the private key is imported;
\* after the private key the passphrase is stored if there is one, else
\* setDefaultRecipient is called
GenAfterSave(n) ==
  /\ km[n].op = "generateKey" /\ km[n].pc \in {"awaitSavePublic", "awaitSavePrivate"}
  /\ IF km[n].pc = "awaitSavePublic"
     THEN km' = [km EXCEPT ![n].pc = "awaitParsePrivate"] /\ UNCHANGED defaultRecipient
     ELSE IF km[n].passphrase # ""
          THEN km' = [km EXCEPT ![n].pc = "awaitStorePassphrase"] /\ UNCHANGED defaultRecipient
          ELSE /\ km' = [km EXCEPT ![n].pc = "awaitSetDefault"]
               /\ defaultRecipient' = GenDefaultRecipient(n)
  /\ UNCHANGED <<kmVars, secrets, config, disk, rd, wr, sv, seen, fsCall>>

\* secrets.store is done, or throws; setDefaultRecipient is called
GenAfterStorePassphrase(n, ok) ==
  /\ km[n].op = "generateKey" /\ km[n].pc = "awaitStorePassphrase"
  /\ IF ok
     THEN /\ secrets' = [secrets EXCEPT ![GenDefaultRecipient(n)] = km[n].passphrase]
          /\ defaultRecipient' = GenDefaultRecipient(n)
          /\ km' = [km EXCEPT ![n].pc = "awaitSetDefault"]
     ELSE /\ km' = [km EXCEPT ![n].pc = "done",
                              ![n].result = "Failed to generate key pair: secrets.store"]
          /\ UNCHANGED <<secrets, defaultRecipient>>
  /\ UNCHANGED <<kmVars, config, disk, rd, wr, sv, seen, fsCall>>

\* the key pair is there; the user is asked whether to save it to disk
GenAfterSetDefault(n) ==
  /\ km[n].op = "generateKey" /\ km[n].pc = "awaitSetDefault"
  /\ km' = [km EXCEPT ![n].pc = "awaitSaveChoice", ![n].result = "generated"]
  /\ UNCHANGED <<kmVars, defaultRecipient, secrets, config, disk, rd, wr, sv, seen, fsCall>>

\* lines 294-331, the backup of the pair: the answer to the offer or to a save
\* dialog (go = it is taken up), or the end of an fs.writeFile (go = it did not
\* throw); backups holds the key files written
GenBackup(n, go) ==
  /\ km[n].op = "generateKey"
  /\ km[n].pc \in {"awaitSaveChoice", "awaitPrivateKeyUri", "awaitWritePrivate",
                   "awaitPublicKeyUri", "awaitWritePublic"}
  /\ km' = CASE km[n].pc = "awaitSaveChoice" ->
                  [km EXCEPT ![n].pc = IF go THEN "awaitPrivateKeyUri" ELSE "done"]
             [] km[n].pc = "awaitPrivateKeyUri" ->
                  [km EXCEPT ![n].pc = IF go THEN "awaitWritePrivate" ELSE "done"]
             [] km[n].pc = "awaitPublicKeyUri" ->
                  [km EXCEPT ![n].pc = IF go THEN "awaitWritePublic" ELSE "done"]
             [] km[n].pc = "awaitWritePrivate" /\ go ->
                  [km EXCEPT ![n].pc = "awaitPublicKeyUri", ![n].backups = {"private"}]
             [] km[n].pc = "awaitWritePublic" /\ go ->
                  [km EXCEPT ![n].pc = "done", ![n].backups = {"private", "public"}]
             [] OTHER ->
                  [km EXCEPT ![n].pc = "done",
                             ![n].result = "Failed to generate key pair: writeFile"]
  /\ UNCHANGED <<kmVars, defaultRecipient, secrets, config, disk, rd, wr, sv, seen, fsCall>>

GenerateKey ==
  \/ \E n \in Slots : GenStart(n)
  \/ \E n \in Slots, userId \in GenUserIds \cup {""} : GenAfterUserId(n, userId)
  \/ \E n \in Slots, passphrase \in {"", "x", Dismissed} : GenAfterPassphrase(n, passphrase)
  \/ \E n \in Slots, confirmPassphrase \in {"", "x", Dismissed} : GenAfterConfirm(n, confirmPassphrase)
  \/ \E n \in Slots, ok \in BOOLEAN : GenAfterGenerate(n, ok)
  \/ \E n \in Slots : GenAfterParse(n)
  \/ \E n \in Slots : GenAfterSave(n)
  \/ \E n \in Slots, ok \in BOOLEAN : GenAfterStorePassphrase(n, ok)
  \/ \E n \in Slots : GenAfterSetDefault(n)
  \/ \E n \in Slots, go \in BOOLEAN : GenBackup(n, go)


(***************************************************************************)
(* EncryptedFileSystemProvider.readFile                                    *)
(***************************************************************************)
RdIdle ==
  [pc |-> "idle", calls |-> 0, fileAtStart |-> NoFile, registered |-> <<>>,
   encryptedData |-> NoFile, privateKeys |-> <<>>, i |-> 0, armoredKey |-> NoKey,
   passphrase |-> "", result |-> NoFile, warning |-> FALSE, usedKey |-> 0, trace |-> <<>>,
   log |-> <<>>]

\* what readFile did, in order: the candidate, the step, the key material and
\* the secret stored for the candidate
Log(r, ev) ==
  [r EXCEPT !.trace =
     Append(r.trace,
            [i |-> r.i, ev |-> ev, key |-> r.armoredKey,
             stored |-> IF r.i \in 1..Len(r.privateKeys)
                        THEN secrets[r.privateKeys[r.i].keyId] ELSE ""])]

Events(r, ev) == {n \in 1..Len(r.trace) : r.trace[n].ev = ev}

\* a logger that adds the passphrase in hand to what it writes
Logged_withPassphrase(r, at) == [r EXCEPT !.log = Append(r.log, <<at, r.passphrase>>)]

\* the lines readFile, storePassphrase and decrypt write to the log (log and
\* logError calls), each line as its fixed text and the values put into it
Logged(r, at) ==
  LET keyId == IF r.i \in 1..Len(r.privateKeys) THEN r.privateKeys[r.i].keyId ELSE ""
      ok == DecryptSucceeds(r.encryptedData, r.armoredKey, r.passphrase)
      unlock ==
        IF r.passphrase = "" THEN <<>>
        ELSE IF r.passphrase = r.armoredKey.lock
        THEN << <<"Private key decrypted successfully">> >>
        ELSE << <<"Failed to decrypt private key (wrong passphrase?)">> >>
      attempt ==
        IF r.passphrase # "" /\ r.passphrase # r.armoredKey.lock THEN <<>>
        ELSE << <<"Attempting decryption with key: ", r.armoredKey.id>>,
                IF ok THEN <<"Decryption successful with key: ", r.armoredKey.id>>
                ELSE <<"Decryption failed">> >>
      decrypt ==
        << <<"Decrypting content">> >>
          \o (IF r.encryptedData.kind # "pgp" THEN << <<"Failed to read encrypted message">> >>
              ELSE << <<"Message encrypted for key IDs: ", r.encryptedData.to>> >>
                     \o (IF ~r.armoredKey.priv THEN << <<"Failed to read private key">> >>
                         ELSE << <<"Primary key: ", r.armoredKey.id>> >> \o unlock \o attempt))
          \o << IF ok THEN <<"Successfully decrypted with key: ", keyId>>
                ELSE <<"Failed to decrypt with key ", keyId>> >>
      lines ==
        CASE at = "readFile" -> << <<"FileSystemProvider: readFile ", "f">> >>
          [] at = "stored" -> << <<"Stored passphrase for key: ", keyId>> >>
          [] at = "decrypt" -> decrypt
          [] at = "return" /\ r.usedKey # 0 -> <<>>
          [] at = "return" /\ Len(r.privateKeys) = 0 -> << <<"No private GPG keys found.">> >>
          [] at = "return" -> << <<"Failed to decrypt file.">>, <<"Tried private key(s): ", "n">> >>
          [] OTHER -> << <<"Error reading file ", "f">> >>
  IN [r EXCEPT !.log = r.log \o lines]

\* a read that hands the ciphertext back without the warning
RdReturn_silent(r) ==
  IF r.usedKey = 0
  THEN [r EXCEPT !.pc = "done", !.result = r.encryptedData]
  ELSE [r EXCEPT !.pc = "done"]

\* a read that throws when nothing could be decrypted
RdReturn_throws(r) ==
  IF r.usedKey = 0 THEN [r EXCEPT !.pc = "failed"] ELSE [r EXCEPT !.pc = "done"]

\* lines 119-126 and 129-130: the loop is over
RdReturn(r) ==
  IF r.usedKey = 0
  THEN [Logged(r, "return") EXCEPT !.pc = "done", !.result = r.encryptedData, !.warning = TRUE]
  ELSE [r EXCEPT !.pc = "done"]

\* lines 68-75: the loop from candidate `from` on, up to the first await
\* (isPassphraseRequired in getKeyPassphraseStatus) or to the end of the list
RECURSIVE RdLoop(_, _)
RdLoop(r, from) ==
  LET i == from
  IN IF i > Len(r.privateKeys) THEN RdReturn(r)
     ELSE LET armoredKey == getPrivateKey(r.privateKeys[i].keyId)
              r1 == Log([r EXCEPT !.i = i, !.armoredKey = armoredKey, !.passphrase = ""],
                        "lookup")
          IN IF armoredKey = NoKey THEN RdLoop(r1, i + 1)
             ELSE [r1 EXCEPT !.pc = "awaitRequired"]

\* lines 89-91 and 103-105: continue
RdSkip_ends(r) == RdReturn(Log(r, "skip"))

RdSkip(r) == RdLoop(Log(r, "skip"), r.i + 1)

\* a loop that tries the same candidate again when decrypt has thrown
RdFailed_retries(r) == RdLoop(Log(Logged(r, "decrypt"), "failed"), r.i)

\* lines 114-116: decrypt has thrown; the next candidate
RdFailed(r) == RdLoop(Log(Logged(r, "decrypt"), "failed"), r.i + 1)

\* lines 111-113: decrypt has returned; break
RdDecrypted_continues(r, content) ==
  RdLoop([r EXCEPT !.usedKey = r.i, !.result = TextEncode(content)], r.i + 1)

RdDecrypted(r, content) ==
  RdReturn([Logged(r, "decrypt") EXCEPT !.usedKey = r.i, !.result = TextEncode(content)])

\* lines 79-80
askForPassphrase_always == TRUE

askForPassphrase == config.askForPassphrase

\* lines 131-139: the catch block calls fs.readFile again
RdCatch(r, why) == [Log(Logged(r, "catch"), why) EXCEPT !.pc = "awaitFallback"]

\* line 111: decrypt is called
RdCallDecrypt(r) == [Log(r, "decrypt") EXCEPT !.pc = "awaitDecrypt"]

\* lines 38-44: the call
ReadStart ==
  /\ rd.pc \in {"idle", "done", "failed"}
  /\ rd.calls <= MaxCalls
  /\ rd' = Logged([RdIdle EXCEPT !.pc = "awaitRead", !.calls = rd.calls + 1,
                                  !.fileAtStart = disk], "readFile")
  /\ UNCHANGED <<kmVars, defaultRecipient, secrets, config, disk, wr, sv, km, seen, fsCall>>

\* lines 44-75: the file is read (or not); listPrivateKeys lists the keys;
\* the loop starts
ReadAfterRead(ok) ==
  /\ rd.pc = "awaitRead"
  /\ ok \in BOOLEAN
  /\ ok => disk # NoFile
  /\ rd' = IF ~ok THEN RdCatch(rd, "readError")
           ELSE LET privateKeys == listPrivateKeys
                    r == [rd EXCEPT !.encryptedData = disk, !.privateKeys = privateKeys,
                                    !.registered = [n \in 1..Len(privateKeys) |->
                                                      getPrivateKey(privateKeys[n].keyId)]]
                IN IF Len(privateKeys) = 0 THEN RdReturn(r) ELSE RdLoop(r, 1)
  /\ UNCHANGED <<kmVars, defaultRecipient, secrets, config, disk, wr, sv, km, seen, fsCall>>

\* keyManager.ts lines 410-411, then lines 76-111 for a key that needs no passphrase
ReadAfterRequired ==
  /\ rd.pc = "awaitRequired"
  /\ rd' = IF isPassphraseRequired(rd.armoredKey)
           THEN [Log(rd, "secret") EXCEPT !.pc = "awaitStored"]
           ELSE RdCallDecrypt(rd)
  /\ UNCHANGED <<kmVars, defaultRecipient, secrets, config, disk, wr, sv, km, seen, fsCall>>

\* keyManager.ts lines 411-413, then lines 78-107: the secret store answers
\* getPassphrase in getKeyPassphraseStatus, or throws
ReadAfterStored(ok) ==
  /\ rd.pc = "awaitStored"
  /\ ok \in BOOLEAN
  /\ LET keyId == rd.privateKeys[rd.i].keyId
         stored == secrets[keyId] # ""
     IN rd' = IF ~ok THEN RdCatch(rd, "secretThrow")
              ELSE IF stored
              THEN [Log(rd, "secret") EXCEPT !.pc = "awaitPassphrase"]
              ELSE IF askForPassphrase
              THEN [Log(rd, "prompt") EXCEPT !.pc = "awaitPrompt"]
              ELSE RdSkip(rd)
  /\ UNCHANGED <<kmVars, defaultRecipient, secrets, config, disk, wr, sv, km, seen, fsCall>>

\* lines 107-111: the secret store answers getPassphrase, or throws
ReadAfterPassphrase(ok) ==
  /\ rd.pc = "awaitPassphrase"
  /\ ok \in BOOLEAN
  /\ rd' = IF ~ok THEN RdCatch(rd, "secretThrow")
           ELSE RdCallDecrypt([rd EXCEPT !.passphrase = secrets[rd.privateKeys[rd.i].keyId]])
  /\ UNCHANGED <<kmVars, defaultRecipient, secrets, config, disk, wr, sv, km, seen, fsCall>>

\* lines 83-98: the input box returns; input = "" is a cancelled or empty input
ReadAfterPrompt(input) ==
  /\ rd.pc = "awaitPrompt"
  /\ input \in Passphrases \cup {""}
  /\ rd' = IF input = "" THEN RdSkip(rd)
           ELSE [rd EXCEPT !.pc = "awaitSaveChoice", !.passphrase = input]
  /\ UNCHANGED <<kmVars, defaultRecipient, secrets, config, disk, wr, sv, km, seen, fsCall>>

\* lines 100-111
ReadAfterSaveChoice(save) ==
  /\ rd.pc = "awaitSaveChoice"
  /\ save \in {"Save", "Don't Save", ""}
  /\ rd' = IF save = "Save" THEN [rd EXCEPT !.pc = "awaitStore"] ELSE RdCallDecrypt(rd)
  /\ UNCHANGED <<kmVars, defaultRecipient, secrets, config, disk, wr, sv, km, seen, fsCall>>

\* lines 101-111 with keyManager.ts lines 381-383: secrets.store is done, or throws
ReadAfterStore(ok) ==
  /\ rd.pc = "awaitStore"
  /\ ok \in BOOLEAN
  /\ IF ok
     THEN /\ secrets' = [secrets EXCEPT ![rd.privateKeys[rd.i].keyId] = rd.passphrase]
          /\ rd' = RdCallDecrypt(Logged(rd, "stored"))
     ELSE /\ rd' = RdCatch(rd, "storeThrow")
          /\ UNCHANGED secrets
  /\ UNCHANGED <<kmVars, defaultRecipient, config, disk, wr, sv, km, seen, fsCall>>

\* a read that writes the decrypted content back to the file
ReadAfterDecrypt_writesBack ==
  /\ rd.pc = "awaitDecrypt"
  /\ rd' = IF DecryptSucceeds(rd.encryptedData, rd.armoredKey, rd.passphrase)
           THEN RdDecrypted(rd, Decrypt(rd.encryptedData, rd.armoredKey, rd.passphrase))
           ELSE RdFailed(rd)
  /\ disk' = IF rd'.usedKey # 0 THEN rd'.result ELSE disk
  /\ UNCHANGED <<kmVars, defaultRecipient, secrets, config, wr, sv, km, seen, fsCall>>

\* lines 111-117: decrypt returns (break) or throws (next candidate)
ReadAfterDecrypt ==
  /\ rd.pc = "awaitDecrypt"
  /\ rd' = IF DecryptSucceeds(rd.encryptedData, rd.armoredKey, rd.passphrase)
           THEN RdDecrypted(rd, Decrypt(rd.encryptedData, rd.armoredKey, rd.passphrase))
           ELSE RdFailed(rd)
  /\ UNCHANGED <<kmVars, defaultRecipient, secrets, config, disk, wr, sv, km, seen, fsCall>>

\* lines 139-144: the second fs.readFile returns the file, or there is none
ReadAfterFallback(ok) ==
  /\ rd.pc = "awaitFallback"
  /\ ok \in BOOLEAN
  /\ ok => disk # NoFile
  /\ rd' = IF ~ok THEN [Log(rd, "readError") EXCEPT !.pc = "failed"]
           ELSE [rd EXCEPT !.pc = "done", !.result = disk, !.warning = TRUE]
  /\ UNCHANGED <<kmVars, defaultRecipient, secrets, config, disk, wr, sv, km, seen, fsCall>>

ReadFile ==
  \/ ReadStart
  \/ \E ok \in BOOLEAN : ReadAfterRead(ok)
  \/ ReadAfterRequired
  \/ \E ok \in BOOLEAN : ReadAfterStored(ok)
  \/ \E ok \in BOOLEAN : ReadAfterPassphrase(ok)
  \/ \E input \in Passphrases \cup {""} : ReadAfterPrompt(input)
  \/ \E save \in {"Save", "Don't Save", ""} : ReadAfterSaveChoice(save)
  \/ \E ok \in BOOLEAN : ReadAfterStore(ok)
  \/ ReadAfterDecrypt
  \/ \E ok \in BOOLEAN : ReadAfterFallback(ok)

(***************************************************************************)
(* EncryptedFileSystemProvider.delete, rename and stat.  The provider's    *)
(* file is "f" (disk); "g" is a second path, its bytes are fsCall.other.   *)
(* fired is what the call in hand has fired on onDidChangeFileEmitter.     *)
(***************************************************************************)
FsIdle ==
  [op |-> "", pc |-> "idle", calls |-> 0, uri |-> "", newUri |-> "", other |-> NoFile,
   fired |-> <<>>, error |-> ""]

Uris == {"f", "g"}

\* the bytes at a path
FileAt(uri) == IF uri = "f" THEN disk ELSE fsCall.other

\* lines 252-256, 265-271 and 23-26: the call, up to its one await
FsCallStart(op, uri, newUri) ==
  /\ fsCall.pc \in {"idle", "done", "failed"}
  /\ fsCall.calls <= MaxCalls
  /\ fsCall' = [FsIdle EXCEPT !.op = op, !.pc = "awaitFs", !.calls = fsCall.calls + 1,
                              !.uri = uri, !.newUri = newUri, !.other = fsCall.other]
  /\ UNCHANGED <<kmVars, defaultRecipient, secrets, config, disk, rd, wr, sv, km, seen>>

\* a delete that reports the file as deleted also when unlink has thrown
DeleteAfterUnlink_firesAlways(ok) ==
  /\ fsCall.op = "delete" /\ fsCall.pc = "awaitFs"
  /\ ok => FileAt(fsCall.uri) # NoFile
  /\ fsCall' = [fsCall EXCEPT !.pc = IF ok THEN "done" ELSE "failed",
                              !.error = IF ok THEN "" ELSE "FileNotFound",
                              !.other = IF ok /\ fsCall.uri = "g" THEN NoFile ELSE @,
                              !.fired = <<[type |-> "Deleted", uri |-> fsCall.uri]>>]
  /\ disk' = IF ok /\ fsCall.uri = "f" THEN NoFile ELSE disk
  /\ UNCHANGED <<kmVars, defaultRecipient, secrets, config, rd, wr, sv, km, seen>>

\* lines 256-262: fs.unlink has removed the file, or has thrown
DeleteAfterUnlink(ok) ==
  /\ fsCall.op = "delete" /\ fsCall.pc = "awaitFs"
  /\ ok => FileAt(fsCall.uri) # NoFile
  /\ fsCall' = IF ok
               THEN [fsCall EXCEPT !.pc = "done",
                                   !.other = IF fsCall.uri = "g" THEN NoFile ELSE @,
                                   !.fired = <<[type |-> "Deleted", uri |-> fsCall.uri]>>]
               ELSE [fsCall EXCEPT !.pc = "failed", !.error = "FileNotFound"]
  /\ disk' = IF ok /\ fsCall.uri = "f" THEN NoFile ELSE disk
  /\ UNCHANGED <<kmVars, defaultRecipient, secrets, config, rd, wr, sv, km, seen>>

\* lines 271-278: fs.rename has moved the file (over what was at the new
\* path), or has thrown
RenameAfterRename(ok) ==
  /\ fsCall.op = "rename" /\ fsCall.pc = "awaitFs"
  /\ ok => FileAt(fsCall.uri) # NoFile
  /\ fsCall' = IF ok
               THEN [fsCall EXCEPT !.pc = "done",
                                   !.other = IF fsCall.uri = "f" THEN disk ELSE NoFile,
                                   !.fired = <<[type |-> "Deleted", uri |-> fsCall.uri],
                                               [type |-> "Created", uri |-> fsCall.newUri]>>]
               ELSE [fsCall EXCEPT !.pc = "failed", !.error = "FileNotFound"]
  /\ disk' = IF ~ok THEN disk ELSE IF fsCall.uri = "f" THEN NoFile ELSE fsCall.other
  /\ UNCHANGED <<kmVars, defaultRecipient, secrets, config, rd, wr, sv, km, seen>>

\* lines 26-35: fs.stat has answered, or has thrown
StatAfterStat(ok) ==
  /\ fsCall.op = "stat" /\ fsCall.pc = "awaitFs"
  /\ ok => FileAt(fsCall.uri) # NoFile
  /\ fsCall' = IF ok THEN [fsCall EXCEPT !.pc = "done"]
               ELSE [fsCall EXCEPT !.pc = "failed", !.error = "FileNotFound"]
  /\ UNCHANGED <<kmVars, defaultRecipient, secrets, config, disk, rd, wr, sv, km, seen>>

FsCalls ==
  \/ FsCallStart("delete", "f", "")
  \/ \E uri \in Uris : FsCallStart("rename", uri, CHOOSE u \in Uris : u # uri)
  \/ FsCallStart("stat", "f", "")
  \/ \E ok \in BOOLEAN : DeleteAfterUnlink(ok)
  \/ \E ok \in BOOLEAN : RenameAfterRename(ok)
  \/ \E ok \in BOOLEAN : StatAfterStat(ok)


(***************************************************************************)
(* The states after activation (the KeyManager constructor has loaded the  *)
(* persisted keys and started the first load) and the specifications.      *)
(***************************************************************************)
Config(keyPaths, default, ask) ==
  [keyPaths |-> keyPaths, defaultRecipient |-> default, askForPassphrase |-> ask]

\* keyManager.ts line 380: the entries are named by whatever storePassphrase is given
NoSecrets == [k \in KeyIds \cup GenUserIds |-> ""]

\* the first load has finished
LoadsSettled(keyPaths) ==
  [l \in LoadIds |-> IF l = 1 THEN [LoadIdle EXCEPT !.state = "done", !.keyPaths = keyPaths]
                     ELSE LoadIdle]

\* keyManager.ts lines 31-36: the first load has been started
LoadsAtConstruction(keyPaths) ==
  [l \in LoadIds |->
     IF l = 1
     THEN [state |-> IF Len(keyPaths) = 0 THEN "done" ELSE "running",
           keyPaths |-> keyPaths, work |-> PathItems(keyPaths),
           before |-> <<>>, overlapped |-> FALSE]
     ELSE LoadIdle]

Quiet ==
  /\ rd = RdIdle /\ wr = WrIdle /\ sv = SvIdle
  /\ km = [n \in Slots |-> KmIdle]
  /\ seen = [during |-> 0, external |-> <<>>]
  /\ fsCall = FsIdle

\* ---- writeFile ----
WriteRegistries ==
  {<<>>, <<Pub("A")>>, <<Sec("A")>>, <<Pub("A"), Sec("A")>>, <<Pub("A"), Pub("B")>>,
   <<Sec("A"), Pub("B"), Pub("A")>>}

InitWrite ==
  /\ \E ks \in WriteRegistries : cachedKeys = MapOfManaged(ks) /\ storedKeys = MapValues(cachedKeys)
  /\ \E keyPaths \in {<<>>, <<"f2">>} :
       /\ externalKeys = ScanResult(keyPaths, <<>>)
       /\ loads = LoadsSettled(keyPaths)
       /\ \E default \in {"", "B"} : config = Config(keyPaths, default, TRUE)
  /\ loadKeysPromise = 1
  /\ defaultRecipient \in {"", "A", "C"}
  /\ secrets = NoSecrets
  /\ disk \in {NoFile, Armor("A", "q")}
  /\ Quiet

NextWrite == WriteFile

SpecWrite == InitWrite /\ [][NextWrite]_vars

\* ---- the save handler ----
InitSave ==
  /\ \E ks \in WriteRegistries : cachedKeys = MapOfManaged(ks) /\ storedKeys = MapValues(cachedKeys)
  /\ \E keyPaths \in {<<>>, <<"f2">>} :
       /\ externalKeys = ScanResult(keyPaths, <<>>)
       /\ loads = LoadsSettled(keyPaths)
       /\ config = Config(keyPaths, "", TRUE)
  /\ loadKeysPromise = 1
  /\ defaultRecipient \in {"", "A", "C"}
  /\ secrets = NoSecrets
  /\ disk \in {NoFile, Armor("A", "q")}
  /\ Quiet

NextSave == SaveHandler

SpecSave == InitSave /\ [][NextSave]_vars

\* ---- the external key loader ----
InitReload ==
  /\ cachedKeys = MapOfManaged(<<Pub("A")>>) /\ storedKeys = MapValues(cachedKeys)
  /\ externalKeys = <<>>
  /\ \E keyPaths \in KeyPathChoices :
       /\ loads = LoadsAtConstruction(keyPaths)
       /\ config = Config(keyPaths, "", TRUE)
  /\ loadKeysPromise = 1
  /\ defaultRecipient = ""
  /\ secrets = NoSecrets
  /\ disk = NoFile
  /\ Quiet

NextReload ==
  \/ \E keyPaths \in KeyPathChoices : ConfigChange(keyPaths)
  \/ \E l \in LoadIds : LoadStep(l)
  \/ ReadRegistry

SpecReload == InitReload /\ [][NextReload]_vars

\* ---- readFile, with importKey and removeKey calls beside it ----
InitRead ==
  /\ \E ks \in {<<>>, <<Pub("A")>>, <<Sec("A")>>,
                 <<Sec("A"), LockedSec("B", "x")>>,
                 <<LockedSec("B", "x"), Sec("A"), Sec("C")>>,
                 <<LockedSec("A", "y"), LockedSec("B", "x"), Sec("C")>>} :
       cachedKeys = MapOfManaged(ks) /\ storedKeys = MapValues(cachedKeys)
  /\ \E keyPaths \in {<<>>, <<"nope", "d">>} :
       /\ externalKeys = ScanResult(keyPaths, <<>>)
       /\ loads = LoadsSettled(keyPaths)
       /\ \E ask \in BOOLEAN : config = Config(keyPaths, "", ask)
  /\ loadKeysPromise = 1
  /\ defaultRecipient = ""
  /\ secrets \in {NoSecrets, [NoSecrets EXCEPT !["B"] = "x"], [NoSecrets EXCEPT !["B"] = "y"]}
  /\ disk \in {NoFile, Armor("B", "p"), BinaryPgp("C", "q"), PlainBytes("p")}
  /\ Quiet

KeyCalls ==
  \/ \E n \in Slots, armoredKey \in {LockedSec("A", "x"), Sec("B")} : ImportStart(n, armoredKey, armoredKey.priv)
  \/ \E n \in Slots : ImportAfterParse(n)
  \/ \E n \in Slots : ImportAfterSave(n)
  \/ \E n \in Slots, keyId \in {"A", "B"} : RemoveStart(n, keyId, TRUE)
  \/ \E n \in Slots : RemoveAfterSave(n)
  \/ \E n \in Slots : RemoveAfterDelete(n)

NextRead == ReadFile \/ KeyCalls

SpecRead == InitRead /\ [][NextRead]_vars


\* ---- the registry: importKey and removeKey calls in any order, beside the first load ----
\* keyCommands.ts awaits importKey (line 70) and removeKey (line 175): once the
\* calls in flight have returned, their callers go on and new calls can be made
KeyCallsSettle ==
  /\ \E n \in Slots : km[n].pc = "done"
  /\ \A n \in Slots : km[n].pc \in {"idle", "done"}
  /\ km' = [n \in Slots |-> KmIdle]
  /\ UNCHANGED <<kmVars, defaultRecipient, secrets, config, disk, rd, wr, sv, seen, fsCall>>

RegistryCalls ==
  \/ \E n \in Slots, armoredKey \in {Pub("A"), Sec("A"), Pub("B")} : ImportStart(n, armoredKey, armoredKey.priv)
  \/ \E n \in Slots : ImportAfterParse(n)
  \/ \E n \in Slots : ImportAfterSave(n)
  \/ \E n \in Slots, keyId \in {"A", "B"}, isPrivate \in BOOLEAN : RemoveStart(n, keyId, isPrivate)
  \/ \E n \in Slots : RemoveAfterSave(n)
  \/ \E n \in Slots : RemoveAfterDelete(n)
  \/ KeyCallsSettle

InitRegistry ==
  /\ \E ks \in {<<>>, <<Sec("A")>>} : cachedKeys = MapOfManaged(ks) /\ storedKeys = MapValues(cachedKeys)
  /\ \E keyPaths \in {<<>>, <<"f1">>, <<"nope", "d">>} :
       /\ externalKeys = <<>>
       /\ loads = LoadsAtConstruction(keyPaths)
       /\ config = Config(keyPaths, "", TRUE)
  /\ loadKeysPromise = 1
  /\ defaultRecipient = ""
  /\ secrets \in {[NoSecrets EXCEPT !["A"] = "y"], [NoSecrets EXCEPT !["B"] = "x"]}
  /\ disk = NoFile
  /\ Quiet

NextRegistry ==
  \/ RegistryCalls
  \/ \E l \in LoadIds : LoadStep(l)

SpecRegistry == InitRegistry /\ [][NextRegistry]_vars


\* ---- reloads over unchanged paths ----
InitRescan ==
  /\ cachedKeys = <<>> /\ storedKeys = <<>>
  /\ externalKeys = <<>>
  /\ \E keyPaths \in {<<>>, <<"f1">>, <<"f2", "nope", "d">>} :
       /\ loads = LoadsAtConstruction(keyPaths)
       /\ config = Config(keyPaths, "", TRUE)
  /\ loadKeysPromise = 1
  /\ defaultRecipient = ""
  /\ secrets = NoSecrets
  /\ disk = NoFile
  /\ Quiet

NextRescan ==
  \/ Reload
  \/ \E l \in LoadIds : LoadStep(l)

SpecRescan == InitRescan /\ [][NextRescan]_vars


\* ---- awaitKeysLoaded beside the loads ----
NextAwait ==
  \/ Reload
  \/ \E l \in LoadIds : LoadStep(l)
  \/ \E n \in Slots : AwaitKeysLoadedStart(n)
  \/ \E n \in Slots : AwaitKeysLoadedReturn(n)

SpecAwait == InitRescan /\ [][NextAwait]_vars


\* ---- extractKeyBlocks on the key files of up to MaxLines lines ----
InitExtract ==
  /\ cachedKeys = <<>> /\ storedKeys = <<>>
  /\ externalKeys = <<>>
  /\ loads = LoadsSettled(<<>>)
  /\ config = Config(<<>>, "", TRUE)
  /\ loadKeysPromise = 1
  /\ defaultRecipient = ""
  /\ secrets = NoSecrets
  /\ disk = NoFile
  /\ Quiet

NextExtract ==
  \E n \in Slots, k \in 0..MaxLines :
    \E marks \in [1..k -> {"begin", "end", "both", "text"}] : ExtractKeyBlocks(n, Lines(marks))

SpecExtract == InitExtract /\ [][NextExtract]_vars


\* ---- key manager calls that overlap: MaxKeyCalls + 2 calls, none awaited by the next ----
RaceSlots == 1..(MaxKeyCalls + 2)

InitRace ==
  /\ \E ks \in {<<Pub("A"), LockedSec("A", "x")>>, <<LockedSec("A", "x"), Sec("B")>>} :
       cachedKeys = MapOfManaged(ks) /\ storedKeys = MapValues(cachedKeys)
  /\ externalKeys = <<>>
  /\ loads = LoadsSettled(<<>>)
  /\ config = Config(<<>>, "", TRUE)
  /\ loadKeysPromise = 1
  /\ defaultRecipient = "A"
  /\ secrets = [NoSecrets EXCEPT !["A"] = "x"]
  /\ disk = NoFile
  /\ rd = RdIdle /\ wr = WrIdle /\ sv = SvIdle
  /\ km = [n \in RaceSlots |-> KmIdle]
  /\ seen = [during |-> 0, external |-> <<>>]
  /\ fsCall = FsIdle

NextRace ==
  \/ \E n \in RaceSlots : ImportStart(n, LockedSec("A", "y"), TRUE)
  \/ \E n \in RaceSlots : ImportAfterParse(n)
  \/ \E n \in RaceSlots : ImportAfterSave(n)
  \/ \E n \in RaceSlots : RemoveStart(n, "A", TRUE)
  \/ \E n \in RaceSlots : RemoveAfterSave(n)
  \/ \E n \in RaceSlots : RemoveAfterDelete(n)
  \/ \E n \in RaceSlots : StorePassphraseStart(n, "A", "y")
  \/ \E n \in RaceSlots : StorePassphraseAfterSecrets(n)
  \/ \E n \in RaceSlots : ClearAllStart(n)
  \/ \E n \in RaceSlots : ClearAllAfterKeys(n)
  \/ \E n \in RaceSlots : ClearAllLoop(n)

\* the extension host runs every continuation whose awaited call has settled
SpecRace == InitRace /\ [][NextRace]_vars /\ WF_vars(NextRace)


\* ---- gpg.generateKey, and the writes that follow it ----
InitGenerate ==
  /\ \E ks \in {<<>>, <<Pub("A")>>} : cachedKeys = MapOfManaged(ks) /\ storedKeys = MapValues(cachedKeys)
  /\ externalKeys = <<>>
  /\ loads = LoadsSettled(<<>>)
  /\ config = Config(<<>>, "", TRUE)
  /\ loadKeysPromise = 1
  /\ defaultRecipient = ""
  /\ secrets = NoSecrets
  /\ disk \in {NoFile, Armor("A", "q")}
  /\ Quiet

NextGenerate == GenerateKey \/ WriteFile

SpecGenerate == InitGenerate /\ [][NextGenerate]_vars


\* ---- the provider's calls on its file: writeFile, readFile, delete, rename, stat ----
InitEvents ==
  /\ cachedKeys = MapOfManaged(<<Pub("A"), Sec("A")>>) /\ storedKeys = MapValues(cachedKeys)
  /\ externalKeys = <<>>
  /\ loads = LoadsSettled(<<>>)
  /\ config = Config(<<>>, "", TRUE)
  /\ loadKeysPromise = 1
  /\ defaultRecipient = "A"
  /\ secrets = NoSecrets
  /\ disk \in {NoFile, Armor("A", "q")}
  /\ rd = RdIdle /\ wr = WrIdle /\ sv = SvIdle
  /\ km = [n \in Slots |-> KmIdle]
  /\ seen = [during |-> 0, external |-> <<>>]
  /\ fsCall = FsIdle

NextEvents ==
  \/ WriteStart(PlainBytes("p"))
  \/ \E ok \in BOOLEAN : WriteAfterEncrypt(ok)
  \/ \E ok \in BOOLEAN : WriteAfterMkdir(ok)
  \/ \E ok \in BOOLEAN : WriteAfterWrite(ok)
  \/ ReadStart
  \/ \E ok \in BOOLEAN : ReadAfterRead(ok)
  \/ ReadAfterRequired
  \/ ReadAfterDecrypt
  \/ \E ok \in BOOLEAN : ReadAfterFallback(ok)
  \/ FsCalls

SpecEvents == InitEvents /\ [][NextEvents]_vars

(***************************************************************************)
(* The claims.                                                             *)
(***************************************************************************)
Values(seq) == {seq[n] : n \in 1..Len(seq)}

\* C1: writeFile is all-or-nothing.  While a call has not persisted, and after
\* a call that failed, the file holds the bytes it held when the call began;
\* after a call that succeeded it holds exactly encrypt(content, the
\* recipient's public key); it never holds the plain content.
C1_WriteAllOrNothing ==
  /\ wr.pc \notin {"idle", "done"} => disk = wr.prior
  /\ wr.pc = "done" =>
       disk = Encrypt(TextDecode(wr.content), getPublicKey(wr.recipientKeyId))
  /\ wr.pc # "idle" => disk # wr.content /\ ~IsPlaintext(disk)

\* a second write fails in encrypt after a first one has replaced the file
C1_Witness ==
  /\ wr.pc = "failed" /\ wr.error = "EncryptError" /\ wr.calls = 2
  /\ disk = Armor("B", "p")

\* C2: after the save handler has finished for a file-scheme document with an
\* encrypted extension (a plain-text document whose file could be read), the
\* file on disk is ciphertext, whatever the registry holds and the user answers.
C2_SavedFileIsCiphertext ==
  (/\ sv.pc = "done" /\ sv.scheme = "file" /\ sv.encryptedExt
   /\ sv.outcome # "ReadError" /\ ~alreadyEncrypted(sv.saved))
    => IsCiphertext(disk)

\* C3: a reader that runs while a load is suspended sees the complete external
\* map from before the load or the complete map the load produces.
C3_ExternalSnapshotAtomic ==
  seen.during # 0 =>
    LET l == loads[seen.during]
    IN seen.external \in {MapValues(l.before), MapValues(ScanResult(l.keyPaths, l.before))}

\* C4: when a reload was started while an earlier load was in flight, then once
\* all loads have finished the external map is the scan result of the last
\* started reload's paths alone.
C4_OverlappingReloadsSupersede ==
  (InFlight = {} /\ loads[loadKeysPromise].overlapped) =>
    Values(listExternalKeys) = Values(MapValues(ScanResult(loads[loadKeysPromise].keyPaths, <<>>)))

\* C5: a read that decrypts with no key (no private key, or every candidate
\* skipped or failed) returns the bytes of the file, unchanged, with a warning;
\* the read throws only when reading the file has just failed.
C5_ReadFallsBackToCiphertext ==
  /\ (rd.pc = "done" /\ rd.usedKey = 0) => (rd.result = disk /\ rd.warning)
  /\ rd.pc = "failed" => (rd.trace # <<>> /\ rd.trace[Len(rd.trace)].ev = "readError")

\* every one of three candidates was skipped or failed, and the ciphertext came back
C5_Witness ==
  /\ rd.pc = "done" /\ rd.usedKey = 0 /\ Len(rd.privateKeys) = 3
  /\ Events(rd, "failed") # {} /\ Events(rd, "skip") # {}
  /\ Events(rd, "secretThrow") = {} /\ IsCiphertext(rd.result)

\* C6: once decrypt has succeeded for candidate i the read is over: no later
\* candidate is looked up, prompted for or decrypted with, and the result is
\* the plaintext that candidate produced.
C6_FirstSuccessWins ==
  rd.usedKey # 0 =>
    /\ rd.pc = "done"
    /\ \A n \in 1..Len(rd.trace) : rd.trace[n].i <= rd.usedKey
    /\ rd.trace[Len(rd.trace)].ev = "decrypt" /\ rd.trace[Len(rd.trace)].i = rd.usedKey
    /\ rd.result = TextEncode(rd.encryptedData.text)

\* the first of three candidates decrypted the file
C6_Witness ==
  /\ rd.pc = "done" /\ rd.usedKey = 1 /\ Len(rd.privateKeys) = 3
  /\ Events(rd, "prompt") # {}

C8_SecretStoreFailureIsSkip ==
  \A n \in Events(rd, "secretThrow") :
    rd.trace[n].i < Len(rd.privateKeys) =>
      /\ n < Len(rd.trace)
      /\ rd.trace[n + 1].ev = "lookup" /\ rd.trace[n + 1].i = rd.trace[n].i + 1

\* C9: the passphrase prompt is shown for a candidate only if its key is
\* passphrase-protected, no passphrase is stored for it and askForPassphrase
\* is on; for an unprotected key neither the prompt nor the secret store is
\* used; with askForPassphrase off a protected key with no stored passphrase
\* is skipped.
C9_PromptOnlyWhenNeeded ==
  /\ \A n \in Events(rd, "prompt") :
       /\ isPassphraseRequired(rd.trace[n].key)
       /\ rd.trace[n].stored = ""
       /\ config.askForPassphrase
  /\ \A n \in Events(rd, "secret") : isPassphraseRequired(rd.trace[n].key)
  /\ \A n \in Events(rd, "decrypt") :
       isPassphraseRequired(rd.trace[n].key)
         => \E m \in 1..(n - 1) : rd.trace[m].i = rd.trace[n].i
                                    /\ rd.trace[m].ev \in {"prompt", "secret"}
                                    /\ (rd.trace[m].ev = "prompt" \/ rd.trace[m].stored # "")
  /\ \A n \in Events(rd, "skip") :
       ~config.askForPassphrase =>
         isPassphraseRequired(rd.trace[n].key) /\ rd.trace[n].stored = ""

\* an unprotected key went straight to decrypt, a protected one was prompted for
C9_Witness ==
  /\ \E n \in Events(rd, "prompt") : rd.trace[n].i = 2
  /\ Len(rd.trace) >= 2 /\ rd.trace[1].ev = "lookup" /\ rd.trace[2].ev = "decrypt"
  /\ ~isPassphraseRequired(rd.trace[1].key)

\* C10: the keys a read tries, and the material it uses for each, are the
\* ones registered when the read listed its candidates.
C10_CandidatesFixedAtStart ==
  \A n \in Events(rd, "lookup") : rd.trace[n].key = rd.registered[rd.trace[n].i]

\* the identity an importKey or removeKey call is working on
Touches(n, keyId, isPrivate) ==
  km'[n] # km[n] /\ km'[n].keyId = keyId /\ km'[n].isPrivate = isPrivate

\* the managed record of an identity, as persisted
Persisted(keyId, isPrivate) ==
  {r \in Values(storedKeys) : r.keyId = keyId /\ r.isPrivate = isPrivate}

\* C11: the registry is indexed by (keyId, kind).  Every entry of both maps
\* sits under the identity of its own record; a step of importKey or removeKey
\* on one identity leaves the record of every other identity, in particular
\* the one of the same keyId and the other kind, as it was; and the step of
\* importKey that stores a key makes it retrievable with its own material.
C11_CompositeIndex ==
  [][/\ \A m \in {cachedKeys', externalKeys'} : \A i \in 1..Len(m) :
          /\ m[i].k = storageKey(m[i].v.keyId, m[i].v.isPrivate)
          /\ \A j \in 1..Len(m) : m[i].k = m[j].k => i = j
     /\ \A keyId \in KeyIds, isPrivate \in BOOLEAN :
          (cachedKeys' # cachedKeys /\ ~\E n \in Slots : Touches(n, keyId, isPrivate))
            => /\ getKey(keyId, isPrivate)' = getKey(keyId, isPrivate)
               /\ MapGet(cachedKeys, storageKey(keyId, isPrivate))'
                    = MapGet(cachedKeys, storageKey(keyId, isPrivate))
     /\ \A n \in Slots :
          (km[n].pc = "awaitParse" /\ km'[n].pc = "awaitSave")
            => LET got == MapGet(cachedKeys, storageKey(km[n].armoredKey.id, km[n].armoredKey.priv))'
               IN got.armoredKey = km[n].armoredKey /\ got.isPrivate = km[n].armoredKey.priv
    ]_vars

\* the public and the private key of A, imported one after the other, are both there
C11_Witness ==
  /\ MapGet(cachedKeys, storageKey("A", FALSE)).armoredKey = Pub("A")
  /\ MapGet(cachedKeys, storageKey("A", TRUE)).armoredKey = Sec("A")
  /\ \E n \in Slots : km[n].op = "importKey" /\ km[n].pc = "done" /\ km[n].keyId = "A"
  /\ Len(cachedKeys) >= 2

\* what a lookup of an identity is to return: the managed record, else the
\* external one, else nothing
Expected(keyId, isPrivate) ==
  LET k == storageKey(keyId, isPrivate)
  IN IF \E i \in 1..Len(cachedKeys) : cachedKeys[i].k = k
     THEN cachedKeys[CHOOSE i \in 1..Len(cachedKeys) : cachedKeys[i].k = k].v
     ELSE IF \E i \in 1..Len(externalKeys) : externalKeys[i].k = k
          THEN externalKeys[CHOOSE i \in 1..Len(externalKeys) : externalKeys[i].k = k].v
          ELSE NoStoredKey

\* C12: getKey, getPublicKey and getPrivateKey return the managed record (its
\* material) of an identity that is in the managed map, the external one of an
\* identity that is only in the external map, and undefined otherwise.
C12_LookupManagedFirst ==
  \A keyId \in KeyIds :
    /\ \A isPrivate \in BOOLEAN : getKey(keyId, isPrivate) = Expected(keyId, isPrivate)
    /\ getPublicKey(keyId) = Expected(keyId, FALSE).armoredKey
    /\ getPrivateKey(keyId) = Expected(keyId, TRUE).armoredKey

\* A private is in both maps with different material, A public only in the
\* external map, C in neither
C12_Witness ==
  /\ MapHas(cachedKeys, storageKey("A", TRUE)) /\ MapHas(externalKeys, storageKey("A", TRUE))
  /\ MapGet(cachedKeys, storageKey("A", TRUE)) # MapGet(externalKeys, storageKey("A", TRUE))
  /\ getPrivateKey("A") = Sec("A")
  /\ ~MapHas(cachedKeys, storageKey("A", FALSE)) /\ getPublicKey("A").uid = "A-f1"
  /\ getKey("C", TRUE) = NoStoredKey

\* the identities of the two maps together
Identities ==
  {<<r.keyId, r.isPrivate>> : r \in Values(MapValues(cachedKeys)) \cup Values(MapValues(externalKeys))}

\* C13: the list operations return every identity of the two maps exactly
\* once, and for an identity that is in both maps they return the fields
\* (userId) of the managed record.
C13_ListsPreferManaged ==
  /\ \A L \in {listKeys, listPublicKeys, listPrivateKeys} : \A i \in 1..Len(L) :
       LET k == storageKey(L[i].keyId, L[i].isPrivate)
       IN MapHas(cachedKeys, k) => L[i].userId = MapGet(cachedKeys, k).userId
  /\ \A id \in Identities :
       /\ Cardinality({i \in 1..Len(listKeys) :
                         <<listKeys[i].keyId, listKeys[i].isPrivate>> = id}) = 1
       /\ LET L == IF id[2] THEN listPrivateKeys ELSE listPublicKeys
          IN Cardinality({i \in 1..Len(L) : <<L[i].keyId, L[i].isPrivate>> = id}) = 1

\* a removeKey call has just been made
RemoveCalled(n) == km[n].pc = "idle" /\ km'[n].op = "removeKey"

\* C14: removeKey of an identity that is in the external map and not in the
\* managed map throws the cannot-remove-external-key error (it returns neither
\* true nor false) and changes neither map, nor the persisted list, nor the secrets.
C14_ExternalRemovalRejected ==
  [][\A n \in Slots :
       (/\ RemoveCalled(n)
        /\ MapHas(externalKeys, storageKey(km'[n].keyId, km'[n].isPrivate))
        /\ ~MapHas(cachedKeys, storageKey(km'[n].keyId, km'[n].isPrivate)))
         => /\ km'[n].pc = "done" /\ km'[n].result = "Cannot remove external key"
            /\ UNCHANGED <<cachedKeys, externalKeys, storedKeys, secrets>>
    ]_vars

\* removeKey('A', false) was rejected: A public comes from f1 only
C14_Witness ==
  \E n \in Slots :
    /\ km[n].op = "removeKey" /\ km[n].result = "Cannot remove external key"
    /\ km[n].keyId = "A" /\ ~km[n].isPrivate
    /\ MapHas(externalKeys, storageKey("A", FALSE)) /\ ~MapHas(cachedKeys, storageKey("A", FALSE))
    /\ secrets["A"] = "y"

\* C15: removeKey of an identity that is in the managed map removes the managed
\* record and persists the change, also when the external map holds the same
\* identity; the call does not fail.
C15_ManagedRemovable ==
  [][\A n \in Slots :
       (RemoveCalled(n) /\ MapHas(cachedKeys, storageKey(km'[n].keyId, km'[n].isPrivate)))
         => /\ ~MapHas(cachedKeys', storageKey(km'[n].keyId, km'[n].isPrivate))
            /\ storedKeys' = MapValues(cachedKeys')
            /\ km'[n].result # "Cannot remove external key"
    ]_vars

\* the removeKey call of slot n returns true in this step
RemoveReturns(n) == km[n].op = "removeKey" /\ km[n].pc = "awaitDelete" /\ km'[n].pc = "done"

\* no other importKey or removeKey call has worked on keyId beside the call of slot n
Alone(n) == \A m \in Slots \ {n} : km[m].pc = "idle" \/ km[m].keyId # km[n].keyId

\* C16: removeKey(keyId, Private) of a managed record takes the record out of
\* the managed map and of the persisted list in the step that removes it, and
\* the step in which it returns true leaves no secret for keyId; with no other
\* key call on keyId beside it, the record is absent and the secret gone once
\* it has returned.
C16_RemovalCascadesToSecret ==
  /\ [][\A n \in Slots :
          /\ (RemoveCalled(n) /\ km'[n].isPrivate /\ km'[n].pc = "awaitSave")
               => /\ ~MapHas(cachedKeys', storageKey(km'[n].keyId, TRUE))
                  /\ \A i \in 1..Len(storedKeys') :
                       ~(storedKeys'[i].keyId = km'[n].keyId /\ storedKeys'[i].isPrivate)
          /\ (RemoveReturns(n) /\ km[n].isPrivate)
               => km'[n].result = "true" /\ secrets'[km[n].keyId] = ""
       ]_vars
  /\ [](\A n \in Slots :
          (km[n].op = "removeKey" /\ km[n].pc = "done" /\ km[n].result = "true"
             /\ km[n].isPrivate /\ Alone(n))
            => /\ ~MapHas(cachedKeys, storageKey(km[n].keyId, TRUE))
               /\ Persisted(km[n].keyId, TRUE) = {}
               /\ secrets[km[n].keyId] = "")

\* the managed private key A, whose passphrase was stored, has been removed
C16_Witness ==
  \E n \in Slots :
    /\ km[n].op = "removeKey" /\ km[n].pc = "done" /\ km[n].result = "true"
    /\ km[n].keyId = "A" /\ km[n].isPrivate
    /\ secrets["A"] = "" /\ secrets["B"] = ""
    /\ ~MapHas(cachedKeys, storageKey("A", TRUE))

\* C17: removeKey deletes the secret of a keyId only when it has removed the
\* managed private record of that keyId: removing a public record leaves the
\* secrets as they are, and so the secret of an external private key is never deleted.
C17_SecretDeletedOnlyWithPrivate ==
  [][\A n \in Slots :
       (km[n].op = "removeKey" /\ km'[n] # km[n] /\ ~km[n].isPrivate) => secrets' = secrets
    ]_vars

\* C18: a stored default recipient whose public key is not in the registry is
\* treated as absent: the write goes to the recipient selection, or fails with
\* the no-public-key error when there is no public key at all; it does not
\* fail with key-not-found.
C18_DanglingDefaultIsAbsent ==
  (wr.pc # "idle" /\ defaultRecipient # "" /\ getPublicKey(defaultRecipient) = NoKey)
    => /\ wr.error # "KeyNotFound"
       /\ wr.picked \/ wr.error = "NoPublicKey"

\* C19: the warning about a recipient without a private key is advisory: the
\* write does not wait for an answer to it and is not aborted because of it.
C19_WarningIsAdvisory ==
  wr.warned => (wr.pc # "awaitWarning" /\ wr.error # "Cancelled")

\* C20: a write with no stored and no configured default recipient and no
\* public key in either map fails with the no-public-key error; the quick pick
\* is not shown and the file keeps the bytes it had.
C20_NoPublicKeyFailsUnprompted ==
  /\ (wr.pc # "idle" /\ defaultRecipient = "" /\ getConfig.defaultRecipient = ""
        /\ \A r \in Values(MapValues(cachedKeys)) \cup Values(MapValues(externalKeys)) : r.isPrivate)
       => wr.pc = "failed" /\ wr.error = "NoPublicKey"
  /\ wr.error = "NoPublicKey"
       => wr.pc = "failed" /\ ~wr.picked /\ ~wr.warned /\ disk = wr.prior

\* only the private key A is registered; the file, which existed, is as it was
C20_Witness ==
  /\ wr.pc = "failed" /\ wr.error = "NoPublicKey"
  /\ MapHas(cachedKeys, storageKey("A", TRUE)) /\ listPublicKeys = <<>>
  /\ wr.prior = Armor("A", "q") /\ disk = Armor("A", "q")

\* C21: the recipient of a write is the configured gpg.defaultRecipient when
\* that is set, else the stored default when that is set, else the key the
\* user selects.
C21_ConfigurationFirst ==
  (wr.pc # "idle" /\ wr.recipientKeyId # "")
    => IF getConfig.defaultRecipient # "" THEN wr.recipientKeyId = getConfig.defaultRecipient
       ELSE IF ~wr.picked THEN wr.recipientKeyId = defaultRecipient
       ELSE \E i \in 1..Len(wr.publicKeys) : wr.publicKeys[i].keyId = wr.recipientKeyId

\* C22: once gpg.keyPaths is empty and the reload the change started is over
\* (a reload that no other load overlapped), the external map is empty, and
\* so no lookup and no list returns an external record.
C22_ClearedPathsClearExternal ==
  (config.keyPaths = <<>> /\ InFlight = {} /\ ~loads[loadKeysPromise].overlapped)
    => /\ listExternalKeys = <<>>
       /\ AllKeys = listStoredKeys
       /\ \A keyId \in KeyIds, isPrivate \in BOOLEAN :
            getKey(keyId, isPrivate) = MapGet(cachedKeys, storageKey(keyId, isPrivate))

\* C23: the persisted list holds no record loaded from a configured path, and
\* whenever no importKey or removeKey call is in flight it is the list of the
\* records of the managed map, in insertion order.
C23_ExternalNeverPersisted ==
  /\ \A i \in 1..Len(storedKeys) :
       /\ ~storedKeys[i].isExternal /\ storedKeys[i].sourcePath = ""
       /\ \E j \in 1..Len(cachedKeys) : cachedKeys[j].v = storedKeys[i]
  /\ (\A n \in Slots : km[n].pc \in {"idle", "done"})
       => /\ Len(storedKeys) = Len(cachedKeys)
          /\ \A i \in 1..Len(storedKeys) : storedKeys[i] = cachedKeys[i].v

\* the public key B was imported and saved while B's keys from directory d
\* were in the external map
C23_Witness ==
  /\ \E n \in Slots : km[n].op = "importKey" /\ km[n].pc = "done" /\ km[n].keyId = "B"
  /\ MapHas(externalKeys, storageKey("B", FALSE)) /\ MapHas(externalKeys, storageKey("B", TRUE))
  /\ \E i \in 1..Len(storedKeys) : storedKeys[i].armoredKey = Pub("B")

\* C24: a new KeyManager over the persisted list has the managed map that was
\* saved: the same records under the same composite keys in the same order.
C24_RegistryRoundTrips ==
  /\ loadKeysFromStorage(saveKeysToStorage(cachedKeys)) = cachedKeys
  /\ (\A n \in Slots : km[n].pc \in {"idle", "done"})
       => loadKeysFromStorage(storedKeys) = cachedKeys

\* the saved map holds the private and the public key of A, in this order
C24_Witness ==
  /\ Len(cachedKeys) = 2
  /\ cachedKeys[1].k = "A_private" /\ cachedKeys[2].k = "A_public"
  /\ cachedKeys[1].v.armoredKey = Sec("A") /\ cachedKeys[2].v.armoredKey = Pub("A")
  /\ loadKeysFromStorage(storedKeys) = cachedKeys
  /\ \E n \in Slots : km[n].op = "importKey" /\ km[n].pc = "done"

\* C25: with the paths and the files unchanged, the reloads that have run, one
\* after the other or overlapping, leave the records a single load leaves.
C25_ReloadIdempotent ==
  (InFlight = {} /\ loadKeysPromise > 1)
    => Values(listExternalKeys) = Values(MapValues(ScanResult(config.keyPaths, <<>>)))

\* a reload that started while the first load was running has finished; the
\* public key B, which is in f2 and in d/sub/keyring, has the later record
C25_Witness ==
  /\ InFlight = {} /\ loads[2].state = "done" /\ loads[2].overlapped
  /\ config.keyPaths = <<"f2", "nope", "d">>
  /\ MapGet(externalKeys, storageKey("B", FALSE)).sourcePath = "d/sub/keyring"

\* the well-formed key blocks in the files a load of path goes into
RECURSIVE WellFormedUnder(_, _)
WellFormedUnder(path, configured) ==
  LET e == Fs(path)
  IN CASE e.t = "file" /\ e.readable /\ (configured \/ HasKeyName(path)) ->
            {b \in Values(e.blocks) : b # BadBlock}
       [] e.t = "dir" /\ e.readable ->
            UNION {WellFormedUnder(e.entries[i], FALSE) : i \in 1..Len(e.entries)}
       [] OTHER -> {}

\* C26: a block that does not parse, a file or a directory that cannot be
\* read and a path that does not exist are skipped: when the loads are over,
\* every well-formed block of the files under the configured paths is in the
\* external map under its identity, and every load has come to its end.
C26_LoadFailuresIsolated ==
  InFlight = {} =>
    /\ \A i \in 1..Len(config.keyPaths) : \A b \in WellFormedUnder(config.keyPaths[i], TRUE) :
         /\ MapHas(externalKeys, storageKey(b.id, b.priv))
         /\ \E j \in 1..Len(config.keyPaths) :
              MapGet(externalKeys, storageKey(b.id, b.priv)).armoredKey
                \in WellFormedUnder(config.keyPaths[j], TRUE)
    /\ \A l \in LoadIds : loads[l].state \in {"idle", "done"} /\ loads[l].work = <<>>

\* f1's two keys are loaded around its malformed block
C26_Witness ==
  /\ InFlight = {} /\ config.keyPaths = <<"f1">>
  /\ BadBlock \in Values(Fs("f1").blocks)
  /\ MapHas(externalKeys, storageKey("A", TRUE)) /\ MapHas(externalKeys, storageKey("A", FALSE))

\* the key ids of a sequence of records or key infos
KeyIdsOf(seq) == [n \in 1..Len(seq) |-> seq[n].keyId]

\* the private keys in listing order: the managed ones as registered, then
\* the external ones whose identity is not managed
ListingOrder ==
  LET managed == SelectSeq(MapValues(cachedKeys), LAMBDA r : r.isPrivate)
      external == SelectSeq(MapValues(externalKeys),
                            LAMBDA r : r.isPrivate /\ ~MapHas(cachedKeys, storageKey(r.keyId, TRUE)))
  IN KeyIdsOf(managed) \o KeyIdsOf(external)

\* the steps of the read so far
Steps(r) == [n \in 1..Len(r.trace) |-> <<r.trace[n].i, r.trace[n].ev>>]

\* C27: the candidates of a read are the private keys in listing order, the
\* managed ones in registration order before the external ones, and the read
\* takes them up in that order.  With A (no passphrase) and B (passphrase not
\* stored) registered in this order, prompting enabled and a file encrypted
\* to B, the read (the secret store answering) tries A, which fails, prompts
\* for B and, given B's passphrase, decrypts with B and returns the plaintext.
C27_CandidatesInListingOrder ==
  /\ [][(rd.pc = "awaitRead" /\ rd'.encryptedData # NoFile)
          => KeyIdsOf(rd'.privateKeys) = ListingOrder]_vars
  /\ [](/\ \A n, m \in 1..Len(rd.trace) : n < m => rd.trace[n].i <= rd.trace[m].i
        /\ \A n \in Events(rd, "lookup") :
             Cardinality({m \in Events(rd, "lookup") : m <= n}) = rd.trace[n].i)
  /\ []((/\ rd.pc = "done" /\ \A n \in Slots : km[n].pc = "idle"
         /\ rd.registered = <<Sec("A"), LockedSec("B", "x")>>
         /\ rd.encryptedData = Armor("B", "p") /\ config.askForPassphrase
         /\ Events(rd, "secretThrow") = {} /\ Events(rd, "storeThrow") = {}
         /\ \E n \in Events(rd, "lookup") : rd.trace[n].i = 2 /\ rd.trace[n].stored = "")
          => /\ SubSeq(Steps(rd), 1, 6) = <<<<1, "lookup">>, <<1, "decrypt">>, <<1, "failed">>,
                                            <<2, "lookup">>, <<2, "secret">>, <<2, "prompt">>>>
             /\ rd.passphrase = "x"
                  => /\ Steps(rd) = SubSeq(Steps(rd), 1, 6) \o <<<<2, "decrypt">>>>
                     /\ rd.usedKey = 2 /\ rd.result = TextEncode("p"))

\* the scenario has run: A failed, B was prompted for and decrypted the file
C27_Witness ==
  /\ rd.pc = "done" /\ rd.usedKey = 2
  /\ rd.registered = <<Sec("A"), LockedSec("B", "x")>>
  /\ Steps(rd) = <<<<1, "lookup">>, <<1, "decrypt">>, <<1, "failed">>,
                   <<2, "lookup">>, <<2, "secret">>, <<2, "prompt">>, <<2, "decrypt">>>>
  /\ rd.result = TextEncode("p")

\* C28: a read that finds no private key in either map returns the bytes of
\* the file as they are, with the warning, and neither decrypts, nor prompts,
\* nor asks the secret store.
C28_NoPrivateKeyNoAttempt ==
  /\ [][(/\ rd.pc = "awaitRead" /\ rd'.encryptedData # NoFile
         /\ \A r \in Values(MapValues(cachedKeys)) \cup Values(MapValues(externalKeys)) :
              ~r.isPrivate)
          => rd'.privateKeys = <<>>]_vars
  /\ []((rd.encryptedData # NoFile /\ rd.privateKeys = <<>>)
          => /\ rd.pc = "done" /\ rd.warning /\ rd.usedKey = 0
             /\ rd.result = rd.encryptedData /\ rd.result = rd.fileAtStart
             /\ rd.trace = <<>>)

\* only the public key A is registered; the file comes back as it is
C28_Witness ==
  /\ rd.pc = "done" /\ rd.privateKeys = <<>> /\ rd.warning
  /\ MapHas(cachedKeys, storageKey("A", FALSE))
  /\ rd.result = Armor("B", "p") /\ disk = Armor("B", "p")

\* C29: no step of a read changes the file, whatever the read ends with; the
\* file holds after the read what it held when the read began.
C29_ReadLeavesFile ==
  /\ [][rd' # rd => disk' = disk]_vars
  /\ [](rd.pc # "idle" => disk = rd.fileAtStart)

\* a read has returned the plaintext, and the file is the ciphertext it was
C29_Witness ==
  /\ rd.pc = "done" /\ rd.usedKey # 0 /\ rd.result = TextEncode("p")
  /\ disk = Armor("B", "p") /\ rd.fileAtStart = disk

\* a generateKey command has come to its end with the key pair in the registry
Generated(n) ==
  /\ km[n].op = "generateKey" /\ km[n].pc = "done"
  /\ km[n].result \in {"generated", "Failed to generate key pair: writeFile"}

\* C30: when gpg.generateKey has set the default recipient, the stored default
\* names the generated public key: getPublicKey(getDefaultRecipient()) is that
\* key; and a write that starts after the command has ended neither asks for a
\* recipient nor fails with key-not-found.
C30_GeneratedKeyIsDefault ==
  /\ [][\A n \in Slots :
          (km[n].op = "generateKey" /\ km[n].pc # "awaitSetDefault"
             /\ km'[n].pc = "awaitSetDefault")
            => getPublicKey(getDefaultRecipient)' = km[n].keyPair.publicKey]_vars
  /\ [][((\A n \in Slots : Generated(n)) /\ wr'.calls = wr.calls + 1)
          => ~wr'.picked /\ wr'.error # "KeyNotFound"]_vars

\* C31: once gpg.generateKey has stored a non-empty passphrase, the passphrase
\* is the secret under the keyId of the private record the command imported,
\* and getKeyPassphraseStatus of that keyId reports required and stored.
C31_GeneratedPassphraseStored ==
  \A n \in Slots :
    (km[n].op = "generateKey" /\ km[n].passphrase # ""
       /\ km[n].pc \notin {"idle", "awaitUserId", "awaitPassphrase", "awaitConfirm",
                           "awaitGenerate", "awaitParsePublic", "awaitSavePublic",
                           "awaitParsePrivate", "awaitSavePrivate", "awaitStorePassphrase"}
       /\ km[n].result \notin {"Passphrases do not match",
                               "Failed to generate key pair: generateKey",
                               "Failed to generate key pair: secrets.store"})
      => LET keyId == parseKeyInfo(km[n].keyPair.privateKey, TRUE).keyId
         IN /\ MapHas(cachedKeys, storageKey(keyId, TRUE))
            /\ secrets[keyId] = km[n].passphrase
            /\ getKeyPassphraseStatus(keyId) = [required |-> TRUE, stored |-> TRUE]

C33_EventsForCompletedOperations ==
  /\ [][wr'.fired # wr.fired
          => /\ wr.pc = "awaitWrite" /\ wr'.pc = "done" /\ wr'.fired = wr.fired + 1
             /\ disk' = wr.encryptedData /\ IsCiphertext(disk')]_vars
  /\ [][(wr.pc # "done" /\ wr'.pc = "done") => wr'.fired = wr.fired + 1]_vars
  /\ [](fsCall.op = "delete"
          => fsCall.fired = IF fsCall.pc = "done"
                            THEN <<[type |-> "Deleted", uri |-> fsCall.uri]>> ELSE <<>>)
  /\ [](fsCall.op = "rename"
          => fsCall.fired = IF fsCall.pc = "done"
                            THEN <<[type |-> "Deleted", uri |-> fsCall.uri],
                                   [type |-> "Created", uri |-> fsCall.newUri]>>
                            ELSE <<>>)
  /\ [][(fsCall.pc = "awaitFs" /\ fsCall'.pc = "done" /\ fsCall.op = "delete")
          => FileAt(fsCall.uri) # NoFile /\ FileAt(fsCall.uri)' = NoFile]_vars
  /\ [][(fsCall.pc = "awaitFs" /\ fsCall'.pc = "done" /\ fsCall.op = "rename")
          => /\ FileAt(fsCall.uri) # NoFile /\ FileAt(fsCall.uri)' = NoFile
             /\ FileAt(fsCall.newUri)' = FileAt(fsCall.uri)]_vars
  /\ [](fsCall.op = "stat" => fsCall.fired = <<>>)
  /\ [][rd' # rd => wr'.fired = wr.fired /\ fsCall'.fired = fsCall.fired]_vars

\* a write has fired its event, a later write has failed, a read has returned
\* the plaintext and a rename has moved the file away
C33_Witness ==
  /\ wr.pc = "failed" /\ wr.fired = 1
  /\ rd.pc = "done" /\ rd.usedKey # 0
  /\ fsCall.op = "rename" /\ fsCall.pc = "done" /\ fsCall.uri = "f" /\ disk = NoFile

\* C34: in the step in which awaitKeysLoaded returns, no load of external keys
\* is in flight and the external map holds the records a complete load of the
\* configured paths leaves, whatever reloads were started while it waited.
C34_AwaitKeysLoadedWaitsForLoads ==
  [][\A n \in Slots :
       (km[n].op = "awaitKeysLoaded" /\ km[n].pc = "awaitPromise" /\ km'[n].pc = "done")
         => /\ InFlight = {}
            /\ Values(listExternalKeys) = Values(MapValues(ScanResult(config.keyPaths, <<>>)))]_vars

\* C35: the blocks extractKeyBlocks returns are in file order and each is a run
\* of consecutive lines of the file that starts with a line containing a BEGIN
\* marker and ends with the first line after it that contains an END marker;
\* so a stray END line and the lines of a block that is never ended are in no
\* returned block.
C35_ExactlyDelimitedBlocks ==
  \A n \in Slots :
    km[n].op = "extractKeyBlocks"
      => LET keyBlocks == km[n].keyBlocks
         IN /\ \A b \in 1..Len(keyBlocks) :
                 LET block == keyBlocks[b]
                 IN /\ Len(block) >= 2
                    /\ block[1].mark \in {"begin", "both"}
                    /\ block[Len(block)].mark \in {"end", "both"}
                    /\ \A j \in 1..Len(block) :
                         /\ block[j] = km[n].keyData[block[1].n + j - 1]
                         /\ (1 < j /\ j < Len(block)) => block[j].mark \notin {"end", "both"}
            /\ \A b \in 1..(Len(keyBlocks) - 1) :
                 keyBlocks[b][Len(keyBlocks[b])].n < keyBlocks[b + 1][1].n

\* C36: when clearAll has run from start to end with no other call beside it,
\* the managed map and the persisted key list are empty, no default recipient
\* is stored, and no secret is left for a key that was managed before the call.
C36_ClearAllClearsSecrets ==
  (km[1].op = "clearAll" /\ km[1].pc = "done" /\ \A n \in DOMAIN km : n > 1 => km[n].pc = "idle")
    => /\ cachedKeys = <<>> /\ storedKeys = <<>>
       /\ defaultRecipient = ""
       /\ secrets = NoSecrets

\* C38: once importKey of a private key k and storePassphrase(k, p) have both
\* run to completion while a removeKey(k, private) call is suspended in
\* saveKeysToStorage, then from there on, whenever removeKey has returned, the
\* managed private record k exists, is in the persisted registry, and the
\* secret of k is p.
C38_RemoveKeepsNewerSecret ==
  \A r, m, t \in RaceSlots :
    [](( /\ r < m /\ m < t
         /\ km[r].op = "removeKey" /\ km[r].isPrivate /\ km[r].pc = "awaitSave"
         /\ km[m].op = "importKey" /\ km[m].pc = "done" /\ km[m].result = "imported"
         /\ km[m].isPrivate /\ km[m].keyId = km[r].keyId
         /\ km[t].op = "storePassphrase" /\ km[t].pc = "done" /\ km[t].keyId = km[r].keyId )
        => [](km[r].pc = "done"
                => /\ MapHas(cachedKeys, storageKey(km[r].keyId, TRUE))
                   /\ \E e \in 1..Len(storedKeys) :
                        storedKeys[e].keyId = km[r].keyId /\ storedKeys[e].isPrivate
                   /\ secrets[km[r].keyId] = km[t].passphrase))

\* C37: whenever readFile writes a secret for a key (the passphrase typed at
\* the prompt, after the answer "Save"), the secret it writes is a passphrase
\* that unlocks that key.
C37_StoredPassphraseUnlocks ==
  [][(rd.pc = "awaitStore" /\ rd'.pc = "awaitDecrypt")
       => secrets'[rd.privateKeys[rd.i].keyId] = rd.armoredKey.lock]_vars

\* what is left of a readFile call: the part of the call it is in (the first
\* read, the loop over the candidates, the read of the catch block, the end) ...
ReadPhase(r) ==
  CASE r.pc = "awaitRead" -> 3
    [] r.pc = "awaitFallback" -> 1
    [] r.pc \in {"idle", "done", "failed"} -> 0
    [] OTHER -> 2

\* ... and, within the loop, the candidates still to come and the awaits still
\* to come for the candidate in hand
ReadRemaining(r) ==
  IF ReadPhase(r) # 2 THEN 0
  ELSE 6 * (Len(r.privateKeys) - r.i)
         + (CASE r.pc = "awaitRequired" -> 5
              [] r.pc = "awaitStored" -> 4
              [] r.pc \in {"awaitPassphrase", "awaitPrompt"} -> 3
              [] r.pc = "awaitSaveChoice" -> 2
              [] r.pc = "awaitStore" -> 1
              [] OTHER -> 0)

\* C39: every step of a readFile call in progress brings the call nearer to its
\* end (so a call whose prompts, secret-store calls and decrypt calls return
\* ends); each candidate listed at read start is looked up at most once, with
\* at most one prompt and at most one decrypt call; and the call ends by
\* returning the plaintext, by returning the ciphertext with the warning, or by
\* throwing after the file could not be read.
C39_ReadFileTerminates ==
  /\ [][(rd.pc \notin {"idle", "done", "failed"} /\ rd' # rd)
          => /\ ReadRemaining(rd) >= 0 /\ ReadRemaining(rd') >= 0
             /\ \/ ReadPhase(rd') < ReadPhase(rd)
                \/ ReadPhase(rd') = ReadPhase(rd) /\ ReadRemaining(rd') < ReadRemaining(rd)]_vars
  /\ [](\A ev \in {"lookup", "prompt", "decrypt"} :
          \A a, b \in Events(rd, ev) :
            /\ rd.trace[a].i \in 1..Len(rd.privateKeys)
            /\ rd.trace[a].i = rd.trace[b].i => a = b)
  /\ [](rd.pc = "done"
          => \/ rd.usedKey # 0 /\ rd.result = TextEncode(rd.encryptedData.text)
             \/ rd.usedKey = 0 /\ rd.result = disk /\ rd.warning)
  /\ [](rd.pc = "failed" => rd.trace[Len(rd.trace)].ev = "readError")

C39_Witness ==
  /\ rd.pc = "done" /\ rd.usedKey = 0
  /\ Cardinality(Events(rd, "decrypt")) >= 2
  /\ Events(rd, "prompt") # {}
  /\ Len(rd.privateKeys) >= 3
====
